---- MODULE Spec2Model ----
(***************************************************************************)
(* A model of goclj: the scanner (parse/lex.go), the tree builder          *)
(* (parse/parse.go), and the printer (format/format.go).                   *)
(*                                                                         *)
(* Source text is a sequence of one-character strings.  The scanner is a   *)
(* goroutine that runs one state function per step and hands its tokens to *)
(* the parser over an unbuffered channel; the parser is the recursive      *)
(* descent of parse.go with its call stack made explicit, one step per     *)
(* call of Tree.next.                                                      *)
(***************************************************************************)
EXTENDS Integers, Sequences, FiniteSets, TLC

VARIABLES
    input,      \* the source text being scanned (bufio.Reader contents)
    include,    \* Tree.includeNonSemantic
    lstate,     \* lexer: the stateFn the run loop will call next ("nil": returned nil)
    lpos,       \* lexer.pos.Offset: runes consumed so far
    lstart,     \* lexer.start.Offset
    chan,       \* lexer.tokens: tokens the scanner is blocked sending, in order
    stack,      \* the parser's call stack (frames of parseList, wrappers, ...)
    tok,        \* Tree.tok
    peekCount,  \* Tree.peekCount
    inLambda,   \* Tree.inLambda
    roots,      \* Tree.Roots
    outcome,    \* "running", or how Tree.Parse ended
    err,        \* the error Parse returned: [pos, msg]
    recvd,      \* tokens the parser has received from the channel so far
    parent,     \* the nodes' parent references: pairs <<path of child, path of parent>>
    pass,       \* 1: first parse/format pass, 2: the pass over the first output
    out,        \* text written by PrintTree in this pass
    pstatus,    \* "none", or how PrintTree ended in this pass
    tree1,      \* Tree.Roots of pass 1, kept for comparison
    out1,       \* output of pass 1
    printer,    \* Printer fields read when an indent style is chosen:
                \* [IndentOverrides, requires, refers]
    chosen,     \* "none", or the style chooseIndent returned for the first root
    threadFirst, \* Printer.threadFirst after PrintTree: the positions of the marked lists
    written,    \* the entries written to the package-level tables defaultIndents,
                \* defaultThreadFirstStyles and DefaultTransforms since the start
    seed,       \* the order in which this run's range over a map of requires visits
                \* its keys: the names, each once
    endCol,     \* the column the top-level printSequence of PrintTree returned
    cfg         \* the Printer configuration (transforms enabled)

vars == <<input, include, lstate, lpos, lstart, chan, stack, tok, peekCount,
          inLambda, roots, outcome, err, recvd, parent, pass, out, pstatus,
          tree1, out1, printer, chosen, threadFirst, endCol, written, seed, cfg>>

lexVars == <<lstate, lpos, lstart, chan>>
parseVars == <<stack, tok, peekCount, inLambda, roots, outcome, err, recvd, parent>>
printVars == <<pass, out, pstatus, tree1, out1, printer, chosen, threadFirst, endCol, written, seed>>

-----------------------------------------------------------------------------
(* Bounds of the model.                                                    *)

MaxLenWrap == 4
MaxLenDelim == 4
MaxLenDispatch == 4
MaxLenFn == 5
MaxLenFormat == 4
MaxLenComment == 5
MaxLenLet == 5
MaxItemsCond == 4
MaxItemsThread == 4
MaxItemsIf == 4

NoPos == -1

-----------------------------------------------------------------------------
(* parse/lex.go: character classes.                                        *)

\* The rune '`', which cannot be written in a string of this module.
Backtick == "backtick"

Digits == {"0", "1", "2", "3", "4", "5", "6", "7", "8", "9"}

\* unicode.IsSpace(r) || r == ','
isWhitespace(r) == r \in {" ", "\t", "\n", "\r", "\f", ","}

isWhitespaceNotNL(r) == r /= "\n" /\ isWhitespace(r)

isSymbolChar(r) ==
    /\ ~isWhitespace(r)
    /\ r \notin {"\"", ";", "@", "^", "~", "(", ")", "[", "]", "{", "}", "\\"}

-----------------------------------------------------------------------------
(* parse/lex.go: the scanner.  A position is the offset lexer.pos.Offset;  *)
(* lexer.val is always the text between lexer.start and lexer.pos.         *)

Token(typ, pos, val) == [typ |-> typ, pos |-> pos, val |-> val]

\* What a receive from the closed channel yields: the zero token.
ZeroToken == Token("tokEOF", NoPos, <<>>)

Val(s, p) == SubSeq(input, s + 1, p)

notLineEnd(r) == r \notin {"\r", "\n"}

\* f(r) for the function value f that a caller passes to scanWhile, named
\* here by its name.
holds(f, r) ==
    CASE f = "isWhitespaceNotNL" -> isWhitespaceNotNL(r)
      [] f = "isSymbolChar" -> isSymbolChar(r)
      [] f = "notLineEnd" -> notLineEnd(r)

\* lexer.scanWhile: the offset reached when scanning from p while f holds.
scanWhile(f, p) ==
    CHOOSE q \in p..Len(input) :
        /\ \A i \in (p + 1)..q : holds(f, input[i])
        /\ q = Len(input) \/ ~holds(f, input[q + 1])

\* lexer.scanUntil("\r\n")
scanUntil(p) == scanWhile("notLineEnd", p)

\* The result of one state function: the next state, the new pos and start,
\* and the tokens it sent.
LexResult(st, p, s, toks) == [state |-> st, pos |-> p, start |-> s, toks |-> toks]

\* lexer.emit followed by returning next
emit(typ, s, p, next) == LexResult(next, p, p, <<Token(typ, s, Val(s, p))>>)

\* lexer.errorf
errorf(s, p, msg) == LexResult("nil", p, s, <<Token("tokError", s, msg)>>)

SingleCharToken(r) ==
    CASE r = "'" -> "tokApostrophe"
      [] r = "@" -> "tokAtSign"
      [] r = Backtick -> "tokBacktick"
      [] r = "^" -> "tokCircumflex"
      [] r = "{" -> "tokLeftBrace"
      [] r = "[" -> "tokLeftBracket"
      [] r = "(" -> "tokLeftParen"
      [] r = "}" -> "tokRightBrace"
      [] r = "]" -> "tokRightBracket"
      [] r = ")" -> "tokRightParen"
      [] r = "~" -> "tokTilde"
      [] r = "\n" -> "tokNewline"
      [] OTHER -> "none"

lexOuter(p, s) ==
    IF p >= Len(input)
    THEN emit("tokEOF", s, p, "nil")
    ELSE LET r == input[p + 1]
             p1 == p + 1
         IN CASE r = ";" -> LexResult("lexComment", p1, s, <<>>)
              [] r = "\"" -> LexResult("lexString", p1, s, <<>>)
              [] r = "\\" -> LexResult("lexCharLiteral", p1, s, <<>>)
              [] r = ":" -> LexResult("lexKeyword", p1, s, <<>>)
              [] r = "%" -> LexResult("lexSymbol", p1, s, <<>>)
              [] r = "#" -> LexResult("lexDispatch", p1, s, <<>>)
              [] r \in {"+", "-"} ->
                    IF p1 >= Len(input)
                    THEN LexResult("nil", p1, p1,
                                   <<Token("tokSymbol", s, Val(s, p1)),
                                     Token("tokEOF", p1, <<>>)>>)
                    ELSE IF input[p1 + 1] \in Digits
                         THEN LexResult("lexNumber", p1, s, <<>>)
                         ELSE LexResult("lexSymbol", p1, s, <<>>)
              [] SingleCharToken(r) /= "none" ->
                    emit(SingleCharToken(r), s, p1, "lexOuter")
              [] isWhitespace(r) -> LexResult("lexWhitespace", p1, s, <<>>)
              [] r \in Digits -> LexResult("lexNumber", p1, s, <<>>)
              [] isSymbolChar(r) -> LexResult("lexSymbol", p1, s, <<>>)
              [] OTHER -> errorf(s, p1, "unrecognized token")

lexWhitespace(p, s) ==
    LET q == scanWhile("isWhitespaceNotNL", p)
    IN LexResult("lexOuter", q, q, <<>>)

\* A lexComment that takes the line terminator into the comment.
lexCommentWithTerminator(p, s) ==
    emit("tokComment", s, IF scanUntil(p) < Len(input) THEN scanUntil(p) + 1 ELSE scanUntil(p),
         "lexOuter")

lexComment(p, s) == emit("tokComment", s, scanUntil(p), "lexOuter")

\* A loop that ends the string at the first quote, escaped or not.
stringEndAtFirstQuote(p, escaped) ==
    IF \E q \in (p + 1)..Len(input) : input[q] = "\""
    THEN CHOOSE q \in (p + 1)..Len(input) :
            input[q] = "\"" /\ \A k \in (p + 1)..(q - 1) : input[k] /= "\""
    ELSE NoPos

\* The loop of lexString: the offset just after the closing quote, or NoPos
\* when the input ends first.
RECURSIVE stringEnd(_, _)
stringEnd(p, escaped) ==
    IF p >= Len(input) THEN NoPos
    ELSE LET r == input[p + 1]
         IN CASE r = "\"" -> IF ~escaped THEN p + 1 ELSE stringEnd(p + 1, FALSE)
              [] r = "\\" -> stringEnd(p + 1, ~escaped)
              [] OTHER -> stringEnd(p + 1, FALSE)

lexString(p, s) ==
    LET q == stringEnd(p, FALSE)
    IN IF q = NoPos
       THEN errorf(s, Len(input), "reached EOF before string closing quote")
       ELSE emit("tokString", s, q, "lexOuter")

lexCharLiteral(p, s) ==
    IF p >= Len(input)
    THEN errorf(s, p, "invalid character literal")
    ELSE emit("tokCharLiteral", s, scanWhile("isSymbolChar", p + 1), "lexOuter")

lexKeyword(p, s) ==
    LET q == scanWhile("isSymbolChar", p)
    IN IF q = s
       THEN errorf(s, q, "empty keyword")
       ELSE emit("tokKeyword", s, q, "lexOuter")

lexNumber(p, s) == emit("tokNumber", s, scanWhile("isSymbolChar", p), "lexOuter")

lexSymbol(p, s) == emit("tokSymbol", s, scanWhile("isSymbolChar", p), "lexOuter")

\* A '<' case that reports nothing: "#<" read as '#' before a form.
lexUnreadableAsTag(p, s) ==
    LexResult("lexOuter", p - 1, p - 1, <<Token("tokOctothorpe", p - 1, <<>>)>>)

\* lexDispatch, the '<' case: errorf is called but its result is dropped, and
\* the function goes on to return lexOuter with start and val left as they are.
lexUnreadable(p, s) ==
    LexResult("lexOuter", p, s, <<Token("tokError", s, "unreadable dispatch macro")>>)

lexDispatch(p, s) ==
    IF p >= Len(input)
    THEN emit("tokOctothorpe", s, p, "nil")
    ELSE LET r == input[p + 1]
             p1 == p + 1
         IN CASE r \in {"{", "(", "\""} ->
                    \* synth; back; skip
                    LexResult("lexOuter", p, p, <<Token("tokDispatch", s, Val(s, p1))>>)
              [] r = "?" ->
                    IF p1 >= Len(input)
                    THEN LexResult("nil", p1, s, <<Token("tokDispatch", s, Val(s, p1))>>)
                    ELSE LET p2 == IF input[p1 + 1] = "@" THEN p1 + 1 ELSE p1
                         IN \* skip comes before synth: the token starts after "#?"
                            LexResult("lexOuter", p2, p2,
                                      <<Token("tokDispatch", p2, Val(s, p2))>>)
              [] r = ":" ->
                    \* synth; back; skip; next
                    LexResult("lexKeyword", p1, p, <<Token("tokDispatch", s, Val(s, p1))>>)
              [] r \in {"'", "_", "^", "="} ->
                    LexResult("lexOuter", p1, p1, <<Token("tokDispatch", s, Val(s, p1))>>)
              [] r = "!" -> LexResult("lexComment", p1, s, <<>>)
              [] r = "<" -> lexUnreadable(p1, s)
              [] OTHER ->
                    \* back; skip; emit
                    LexResult("lexOuter", p, p, <<Token("tokOctothorpe", p, <<>>)>>)

\* One iteration of the loop of lexer.run: state = state(l).
stateFn(st, p, s) ==
    CASE st = "lexOuter" -> lexOuter(p, s)
      [] st = "lexWhitespace" -> lexWhitespace(p, s)
      [] st = "lexComment" -> lexComment(p, s)
      [] st = "lexString" -> lexString(p, s)
      [] st = "lexCharLiteral" -> lexCharLiteral(p, s)
      [] st = "lexKeyword" -> lexKeyword(p, s)
      [] st = "lexNumber" -> lexNumber(p, s)
      [] st = "lexSymbol" -> lexSymbol(p, s)
      [] st = "lexDispatch" -> lexDispatch(p, s)

\* The channel is closed once run has left its loop: the last state function
\* returned nil and every token it sent has been received.
ChanClosed == lstate = "nil" /\ chan = <<>>

\* lexer.run: the scanner goroutine runs the next state function.  Its sends
\* block until the parser receives, so it runs only when nothing is pending.
LexRun ==
    /\ lstate /= "nil"
    /\ chan = <<>>
    /\ LET r == stateFn(lstate, lpos, lstart)
       IN /\ lstate' = r.state
          /\ lpos' = r.pos
          /\ lstart' = r.start
          /\ chan' = r.toks
    /\ UNCHANGED <<input, include, cfg>>
    /\ UNCHANGED parseVars
    /\ UNCHANGED printVars

-----------------------------------------------------------------------------
(* parse/node.go: nodes.  A node is [typ, pos, val, ch]: its Go type, its  *)
(* position, its scalar payload and its children.                          *)

Node(typ, pos, val, ch) == [typ |-> typ, pos |-> pos, val |-> val, ch |-> ch]

\* The nil Node: what Tree.parse returns at EOF.
nilNode == Node("nil", NoPos, <<>>, <<>>)

WrapperTypes ==
    {"DerefNode", "MetadataNode", "QuoteNode", "SyntaxQuoteNode", "UnquoteNode",
     "UnquoteSpliceNode", "IgnoreFormNode"}

CompositeTypes == {"ListNode", "MapNode", "VectorNode", "SetNode", "FnLiteralNode"}

isSemantic(n) == n.typ \notin {"CommentNode", "NewlineNode"}

RECURSIVE countSemantic(_)
countSemantic(nodes) ==
    IF nodes = <<>> THEN 0
    ELSE (IF isSemantic(Head(nodes)) THEN 1 ELSE 0) + countSemantic(Tail(nodes))

-----------------------------------------------------------------------------
(* parse/parse.go: the tree builder.  The parser state that the functions  *)
(* below pass along is the record                                          *)
(*   [stack, peek, inLambda, roots, outcome, err].                         *)
(* A frame of the stack is a call that is waiting for a token or for the   *)
(* node of the parse call it made: [fn, pos, nodes, st].                   *)

Frame(fn, pos, nodes, st) == [fn |-> fn, pos |-> pos, nodes |-> nodes, st |-> st]

NoErr == [pos |-> NoPos, msg |-> ""]

Push(ps, f) == [ps EXCEPT !.stack = Append(@, f)]

Pop(ps) == [ps EXCEPT !.stack = SubSeq(@, 1, Len(@) - 1)]

Top(ps) == ps.stack[Len(ps.stack)]

SetTop(ps, f) == [ps EXCEPT !.stack[Len(ps.stack)] = f]

\* Tree.errorf: panic(parseError{...}), which Tree.recover turns into the
\* error Parse returns.
parseErrorf(ps, pos, msg) ==
    [ps EXCEPT !.outcome = "parseError", !.err = [pos |-> pos, msg |-> msg]]

unexpected(ps, t) == parseErrorf(ps, t.pos, "unexpected token")

unexpectedEOF(ps, t) == parseErrorf(ps, t.pos, "unexpected EOF")

\* panic("should not happen"): not a lexError or parseError, so Tree.recover
\* panics again and Parse does not return.
shouldNotHappen(ps) ==
    [ps EXCEPT !.outcome = "panic", !.err = [pos |-> NoPos, msg |-> "should not happen"]]

\* Two calls of Tree.backup with no call of Tree.next between them.
backupTwice(ps) ==
    [ps EXCEPT !.peek = @ + 2, !.outcome = "panic",
               !.err = [pos |-> NoPos, msg |-> "backup() called twice consecutively"]]

\* Tree.backup
backup(ps) ==
    IF ps.peek + 1 > 1
    THEN [ps EXCEPT !.peek = @ + 1, !.outcome = "panic",
                    !.err = [pos |-> NoPos, msg |-> "backup() called twice consecutively"]]
    ELSE [ps EXCEPT !.peek = @ + 1]

\* if t.includeNonSemantic || isSemantic(node) { nodes = append(nodes, node) }
keep(nodes, node) ==
    IF include \/ isSemantic(node) THEN Append(nodes, node) ELSE nodes

\* A call of Tree.parse returns node to its caller: the loop of Tree.Parse
\* (empty stack), a wrapper literal such as &QuoteNode{..., t.parse()}, or
\* the loop of parseList, parseMap, parseVector, parseSet, parseFnLiteral.
RECURSIVE return(_, _)
return(ps, node) ==
    IF ps.stack = <<>>
    THEN IF node = nilNode
         THEN [ps EXCEPT !.outcome = "ok"]
         ELSE [ps EXCEPT !.roots = keep(@, node)]
    ELSE LET f == Top(ps)
         IN IF f.fn = "wrap"
            THEN return(Pop(ps), Node(f.st, f.pos, <<>>, <<node>>))
            ELSE SetTop(ps, [f EXCEPT !.nodes = keep(@, node), !.st = "loop"])

OctDigits == {"0", "1", "2", "3", "4", "5", "6", "7"}

HexDigits == Digits \cup {"a", "b", "c", "d", "e", "f", "A", "B", "C", "D", "E", "F"}

\* strconv.ParseInt(s, base, 32) returns no error and n >= 0: an optional
\* sign, then one or more digits of the base; n < 0 only for '-' before a
\* nonzero number.
parseIntNonNeg(s, digits) ==
    LET signed == s /= <<>> /\ s[1] \in {"+", "-"}
        body == IF signed THEN Tail(s) ELSE s
    IN /\ body /= <<>>
       /\ \A i \in 1..Len(body) : body[i] \in digits
       /\ (signed /\ s[1] = "-") => \A i \in 1..Len(body) : body[i] = "0"

CharNames ==
    {<<"n", "e", "w", "l", "i", "n", "e">>, <<"s", "p", "a", "c", "e">>,
     <<"t", "a", "b">>, <<"f", "o", "r", "m", "f", "e", "e", "d">>,
     <<"b", "a", "c", "k", "s", "p", "a", "c", "e">>,
     <<"r", "e", "t", "u", "r", "n">>}

\* The message of the error parseCharLiteral raises for tok.val[1:], or "".
charLiteralError(val) ==
    CASE Len(val) = 1 -> ""
      [] Len(val) = 0 -> "invalid character literal"
      [] val \in CharNames -> ""
      [] val[1] = "o" ->
            IF Len(val) /= 4 \/ ~parseIntNonNeg(Tail(val), OctDigits)
            THEN "invalid octal literal" ELSE ""
      [] val[1] = "u" ->
            IF Len(val) /= 5 \/ ~parseIntNonNeg(Tail(val), HexDigits)
            THEN "invalid unicode literal" ELSE ""
      [] OTHER -> "invalid character literal"

parseCharLiteral(ps, t) ==
    LET msg == charLiteralError(Tail(t.val))
    IN IF msg /= ""
       THEN parseErrorf(ps, t.pos, msg)
       ELSE return(ps, Node("CharacterNode", t.pos, t.val, <<>>))

\* tok.val[1 : len(tok.val)-1]
stripQuotes(val) == SubSeq(val, 2, Len(val) - 1)

\* parseFnLiteral without its test of inLambda.
parseFnLiteralUnchecked(ps, t) ==
    Push(ps, Frame("parseFnLiteral", t.pos, <<>>, "open"))

parseFnLiteral(ps, t) ==
    IF ps.inLambda
    THEN parseErrorf(ps, t.pos, "cannot nest fn literals")
    ELSE Push(ps, Frame("parseFnLiteral", t.pos, <<>>, "open"))

parseDispatch(ps, t) ==
    CASE t.val = <<"#", "(">> -> parseFnLiteral(ps, t)
      [] t.val = <<"#", "_">> -> Push(ps, Frame("parseIgnoreForm", t.pos, <<>>, "underscore"))
      [] t.val = <<"#", "\"">> -> Push(ps, Frame("parseRegex", t.pos, <<>>, "string"))
      [] t.val = <<"#", "{">> -> Push(ps, Frame("parseSet", t.pos, <<>>, "open"))
      [] t.val = <<"#", "'">> -> Push(ps, Frame("parseVarQuote", t.pos, <<>>, "apostrophe"))
      [] OTHER -> unexpected(ps, t)

wrap(ps, typ, t) == Push(ps, Frame("wrap", t.pos, <<>>, typ))

\* Tree.parse, after tok := t.next()
parse(ps, t) ==
    CASE t.typ = "tokSymbol" ->
            return(ps, Node(CASE t.val = <<"n", "i", "l">> -> "NilNode"
                              [] t.val \in {<<"t", "r", "u", "e">>,
                                            <<"f", "a", "l", "s", "e">>} -> "BoolNode"
                              [] OTHER -> "SymbolNode",
                            t.pos, t.val, <<>>))
      [] t.typ = "tokCharLiteral" -> parseCharLiteral(ps, t)
      [] t.typ = "tokComment" -> return(ps, Node("CommentNode", t.pos, t.val, <<>>))
      [] t.typ = "tokAtSign" -> wrap(ps, "DerefNode", t)
      [] t.typ = "tokKeyword" -> return(ps, Node("KeywordNode", t.pos, t.val, <<>>))
      [] t.typ = "tokLeftParen" -> Push(ps, Frame("parseList", t.pos, <<>>, "loop"))
      [] t.typ = "tokLeftBrace" -> Push(ps, Frame("parseMap", t.pos, <<>>, "loop"))
      [] t.typ = "tokCircumflex" -> wrap(ps, "MetadataNode", t)
      [] t.typ = "tokNewline" -> return(ps, Node("NewlineNode", t.pos, <<>>, <<>>))
      [] t.typ = "tokNumber" -> return(ps, Node("NumberNode", t.pos, t.val, <<>>))
      [] t.typ = "tokApostrophe" -> wrap(ps, "QuoteNode", t)
      [] t.typ = "tokString" ->
            return(ps, Node("StringNode", t.pos, stripQuotes(t.val), <<>>))
      [] t.typ = "tokBacktick" -> wrap(ps, "SyntaxQuoteNode", t)
      [] t.typ = "tokTilde" -> Push(ps, Frame("parseTilde", t.pos, <<>>, "next"))
      [] t.typ = "tokLeftBracket" -> Push(ps, Frame("parseVector", t.pos, <<>>, "loop"))
      [] t.typ = "tokDispatch" -> parseDispatch(ps, t)
      [] t.typ = "tokOctothorpe" -> Push(ps, Frame("parseTag", t.pos, <<>>, "symbol"))
      [] t.typ = "tokEOF" -> return(ps, nilNode)
      [] OTHER -> unexpected(ps, t)

Closer(fn) ==
    CASE fn \in {"parseList", "parseFnLiteral"} -> "tokRightParen"
      [] fn \in {"parseMap", "parseSet"} -> "tokRightBrace"
      [] fn = "parseVector" -> "tokRightBracket"

NodeTypeOf(fn) ==
    CASE fn = "parseList" -> "ListNode"
      [] fn = "parseMap" -> "MapNode"
      [] fn = "parseVector" -> "VectorNode"
      [] fn = "parseSet" -> "SetNode"
      [] fn = "parseFnLiteral" -> "FnLiteralNode"

LoopFns == {"parseList", "parseMap", "parseVector", "parseSet", "parseFnLiteral"}

\* The head of the loop of parseList, parseMap, parseVector, parseSet and
\* parseFnLiteral, after tok := t.next()
parseLoop(ps, t) ==
    LET f == Top(ps)
    IN CASE t.typ = Closer(f.fn) ->
                return([Pop(ps) EXCEPT !.inLambda =
                            IF f.fn = "parseFnLiteral" THEN FALSE ELSE @],
                       Node(NodeTypeOf(f.fn), f.pos, <<>>, f.nodes))
         [] t.typ = "tokEOF" -> unexpectedEOF(ps, t)
         [] OTHER -> backup(SetTop(ps, [f EXCEPT !.st = "item"]))

\* parseFnLiteral and parseSet, after the first tok := t.next()
parseOpen(ps, t) ==
    LET f == Top(ps)
        want == IF f.fn = "parseFnLiteral" THEN "tokLeftParen" ELSE "tokLeftBrace"
    IN IF t.typ /= want
       THEN shouldNotHappen(ps)
       ELSE [SetTop(ps, [f EXCEPT !.st = "loop"]) EXCEPT !.inLambda =
                IF f.fn = "parseFnLiteral" THEN TRUE ELSE @]

\* Tree.parse, case tokTilde, after next := t.next()
parseTilde(ps, t) ==
    LET f == Top(ps)
    IN CASE t.typ = "tokAtSign" -> SetTop(ps, Frame("wrap", f.pos, <<>>, "UnquoteSpliceNode"))
         [] t.typ = "tokEOF" -> unexpectedEOF(ps, t)
         [] OTHER -> backup(SetTop(ps, Frame("wrap", f.pos, <<>>, "UnquoteNode")))

parseIgnoreForm(ps, t) ==
    LET f == Top(ps)
    IN IF f.st = "underscore"
       THEN IF t.typ /= "tokSymbol" \/ t.val /= <<"_">>
            THEN shouldNotHappen(ps)
            ELSE SetTop(ps, [f EXCEPT !.st = "peek"])
       ELSE IF t.typ = "tokEOF"
            THEN unexpectedEOF(ps, t)
            ELSE backup(SetTop(ps, Frame("wrap", f.pos, <<>>, "IgnoreFormNode")))

parseRegex(ps, t) ==
    IF t.typ /= "tokString"
    THEN shouldNotHappen(ps)
    ELSE return(Pop(ps), Node("RegexNode", Top(ps).pos, stripQuotes(t.val), <<>>))

parseVarQuote(ps, t) ==
    LET f == Top(ps)
    IN IF f.st = "apostrophe"
       THEN IF t.typ /= "tokApostrophe"
            THEN shouldNotHappen(ps)
            ELSE SetTop(ps, [f EXCEPT !.st = "symbol"])
       ELSE CASE t.typ = "tokSymbol" ->
                    return(Pop(ps), Node("VarQuoteNode", f.pos, t.val, <<>>))
              [] t.typ = "tokEOF" -> unexpectedEOF(ps, t)
              [] OTHER -> unexpected(ps, t)

parseTag(ps, t) ==
    CASE t.typ = "tokSymbol" -> return(Pop(ps), Node("TagNode", Top(ps).pos, t.val, <<>>))
      [] t.typ = "tokEOF" -> unexpectedEOF(ps, t)
      [] OTHER -> unexpected(ps, t)

\* Which call of t.next() the parser is at: in Tree.parse (called by
\* Tree.Parse, by a wrapper literal or for an item of a loop), or in the
\* function of the top frame.
AtParse(stk) ==
    \/ stk = <<>>
    \/ stk[Len(stk)].fn = "wrap"
    \/ stk[Len(stk)].fn \in LoopFns /\ stk[Len(stk)].st = "item"

\* The code that runs from one return of t.next() up to the next call of it.
afterNext(ps, t) ==
    IF AtParse(ps.stack) THEN parse(ps, t)
    ELSE LET f == Top(ps)
         IN CASE f.fn \in LoopFns /\ f.st = "loop" -> parseLoop(ps, t)
              [] f.fn \in LoopFns /\ f.st = "open" -> parseOpen(ps, t)
              [] f.fn = "parseTilde" -> parseTilde(ps, t)
              [] f.fn = "parseIgnoreForm" -> parseIgnoreForm(ps, t)
              [] f.fn = "parseRegex" -> parseRegex(ps, t)
              [] f.fn = "parseVarQuote" -> parseVarQuote(ps, t)
              [] f.fn = "parseTag" -> parseTag(ps, t)

\* lexer.nextToken: a receive from the token channel; from the closed
\* channel it yields the zero token.
nextToken == IF chan /= <<>> THEN Head(chan) ELSE ZeroToken

\* One call of Tree.next and the code up to the next call.  With peekCount
\* = 0 the call receives from the channel (Tree.nextToken), which blocks
\* until the scanner sends or closes; an error token makes nextToken panic
\* with lexError before Tree.tok is assigned.
\* Parent linkage. A node is named by its path: the index of its root in
\* Tree.Roots followed by the child indices down to it. When the builder has
\* constructed a node with children it sets each child's parent reference to
\* that node, for the whole subtree; a root's reference is never set.
RECURSIVE setParents(_, _)
setParentsCompositeOnly(node, path) ==
    IF node.typ \in WrapperTypes
    THEN {}
    ELSE UNION {{<<Append(path, i), path>>} \cup setParents(node.ch[i], Append(path, i)) :
                   i \in 1..Len(node.ch)}

setParents(node, path) ==
    UNION {{<<Append(path, i), path>>} \cup setParents(node.ch[i], Append(path, i)) :
              i \in 1..Len(node.ch)}

\* The references set in a tree whose roots are rts: every root subtree is
\* linked when its construction completes, before it is appended to Roots.
linkRoots(rts) == UNION {setParents(rts[i], <<i>>) : i \in 1..Len(rts)}

ParseStep ==
    /\ outcome = "running"
    /\ peekCount > 0 \/ chan /= <<>> \/ ChanClosed
    /\ LET recv == peekCount = 0
           t == IF recv THEN nextToken ELSE tok
           ps0 == [stack |-> stack, peek |-> IF recv THEN 0 ELSE peekCount - 1,
                   inLambda |-> inLambda, roots |-> roots,
                   outcome |-> "running", err |-> NoErr]
           ps == IF t.typ = "tokError"
                 THEN [ps0 EXCEPT !.outcome = "lexError",
                                  !.err = [pos |-> t.pos, msg |-> t.val]]
                 ELSE afterNext(ps0, t)
       IN /\ chan' = IF recv /\ chan /= <<>> THEN Tail(chan) ELSE chan
          /\ recvd' = IF recv THEN Append(recvd, t) ELSE recvd
          /\ tok' = IF t.typ = "tokError" THEN tok ELSE t
          /\ stack' = ps.stack
          /\ peekCount' = ps.peek
          /\ inLambda' = ps.inLambda
          /\ roots' = ps.roots
          /\ parent' = IF ps.roots = roots THEN parent ELSE linkRoots(ps.roots)
          /\ outcome' = ps.outcome
          /\ err' = ps.err
    /\ UNCHANGED <<input, include, cfg, lstate, lpos, lstart>>
    /\ UNCHANGED printVars

-----------------------------------------------------------------------------
(* goclj.go: predicates on nodes.                                          *)

Newline(node) == node.typ = "NewlineNode"

Comment(node) == node.typ = "CommentNode"

Vector(node) == node.typ = "VectorNode"

Keyword(node) == node.typ = "KeywordNode"

\* goclj.Semantic: of the nil Node it is true.
Semantic(node) ==
    node.typ \notin {"NewlineNode", "CommentNode", "MetadataNode", "TagNode"}

FnFormSymbol(node, syms) ==
    /\ node.typ = "ListNode"
    /\ node.ch /= <<>>
    /\ node.ch[1].typ = "SymbolNode"
    /\ node.ch[1].val \in syms

\* Calling Children() on the nil Node is a nil dereference: a walk that
\* calls it on every node of the tree under n panics exactly when a wrapper
\* under n (or n itself) holds no node.
RECURSIVE hasNil(_)
hasNil(n) == n = nilNode \/ \E i \in 1..Len(n.ch) : hasNil(n.ch[i])

-----------------------------------------------------------------------------
(* format/transform.go: the tree transforms that run before printing.  A  *)
(* Transforms map is a function from transform names to BOOLEAN; the nil   *)
(* map is the empty function.  removeUnusedRequires is not modelled: no    *)
(* configuration of this model enables it.                                 *)

DefaultTransforms ==
    [k \in {"TransformSortImportRequire", "TransformEnforceNSStyle",
            "TransformRemoveTrailingNewlines",
            "TransformFixDefnArglistNewline",
            "TransformFixDefmethodDispatchValNewline",
            "TransformRemoveExtraBlankLines",
            "TransformFixIfNewlineConsistency"} |-> TRUE]

\* The loop of removeTrailingNewlines that shortens the children of a
\* sequence-like form.
RECURSIVE trimTrailing(_)
trimTrailing(nodes) ==
    CASE nodes = <<>> -> nodes
      [] Len(nodes) >= 2 /\ Comment(nodes[Len(nodes) - 1]) -> nodes
      [] ~Newline(nodes[Len(nodes)]) -> nodes
      [] OTHER -> trimTrailing(SubSeq(nodes, 1, Len(nodes) - 1))

RECURSIVE removeTrailingNewlines(_)
removeTrailingNewlines(n) ==
    IF n.ch = <<>> THEN n
    ELSE LET nodes == IF n.typ \in CompositeTypes THEN trimTrailing(n.ch) ELSE n.ch
         IN [n EXCEPT !.ch = [i \in 1..Len(nodes) |-> removeTrailingNewlines(nodes[i])]]

\* nodes[2], nodes[3] = nodes[3], nodes[2] (1-based: 3 and 4)
swap23(nodes) == [nodes EXCEPT ![3] = nodes[4], ![4] = nodes[3]]

fixDefnArglist(defn) ==
    LET nodes == defn.ch
    IN CASE Len(nodes) < 5 -> defn
         [] ~Newline(nodes[3]) \/ Newline(nodes[5]) -> defn
         [] ~Vector(nodes[4]) -> defn
         [] OTHER -> [defn EXCEPT !.ch = swap23(nodes)]

fixDefmethodDispatchVal(defmethod) ==
    LET nodes == defmethod.ch
    IN CASE Len(nodes) < 5 -> defmethod
         [] ~Newline(nodes[3]) -> defmethod
         [] ~Keyword(nodes[4]) -> defmethod
         [] Newline(nodes[5]) ->
                [defmethod EXCEPT !.ch = SubSeq(nodes, 1, 2) \o SubSeq(nodes, 4, Len(nodes))]
         [] OTHER -> [defmethod EXCEPT !.ch = swap23(nodes)]

\* The loop of removeExtraBlankLines: newlines counts the newline nodes in a
\* row that end at the node before nodes.
RECURSIVE blankLinesLoop(_, _)
blankLinesLoop(nodes, newlines) ==
    IF nodes = <<>> THEN <<>>
    ELSE LET n == IF Newline(Head(nodes)) THEN newlines + 1 ELSE 0
         IN (IF n <= 2 THEN <<Head(nodes)>> ELSE <<>>) \o blankLinesLoop(Tail(nodes), n)

removeExtraBlankLines(nodes) == blankLinesLoop(nodes, 0)

RECURSIVE removeExtraBlankLinesRec(_)
removeExtraBlankLinesRec(n) ==
    IF n.ch = <<>> THEN n
    ELSE LET nodes == IF Len(n.ch) > 2 THEN removeExtraBlankLines(n.ch) ELSE n.ch
         IN [n EXCEPT !.ch = [i \in 1..Len(nodes) |-> removeExtraBlankLinesRec(nodes[i])]]

\* transforms[k] of a Go map: false for a key that is not there.
enabled(transforms, k) == k \in DOMAIN transforms /\ transforms[k]

-----------------------------------------------------------------------------
(* Node objects.  A node the parser built is the object at its position; a *)
(* node a transform allocates has no position and is named by the place    *)
(* that allocated it and the object it was allocated for.                  *)

addr(n) == IF "id" \in DOMAIN n THEN n.id ELSE <<"parsed", n.pos>>

alloc(typ, val, ch, id) == [typ |-> typ, pos |-> NoPos, val |-> val, ch |-> ch, id |-> id]

\* var newline = &parse.NewlineNode{}: one object for the whole process.
newline == alloc("NewlineNode", <<>>, <<>>, <<"newline">>)

FnFormKeyword(node, kw) ==
    /\ node.typ = "ListNode"
    /\ node.ch /= <<>>
    /\ node.ch[1].typ = "KeywordNode"
    /\ node.ch[1].val \in kw

\* The bytes of the names of this model in ascending order.
ASCII ==
    <<"!", "#", "'", "(", ")", "-", ".", "/", "0", "1", "2", "3", "4", ":", ";", "<",
      "[", "]", "a", "b", "c", "d", "e", "f", "g", "h", "i", "j", "k", "l", "m", "n",
      "o", "p", "q", "r", "s", "t", "u", "v", "w", "x", "y", "z">>

byte(c) == CHOOSE i \in 1..Len(ASCII) : ASCII[i] = c

\* k0 < k1 of two Go strings.
RECURSIVE strLess(_, _)
strLess(k0, k1) ==
    CASE k1 = <<>> -> FALSE
      [] k0 = <<>> -> TRUE
      [] Head(k0) /= Head(k1) -> byte(Head(k0)) < byte(Head(k1))
      [] OTHER -> strLess(Tail(k0), Tail(k1))

kwRequire == <<":", "r", "e", "q", "u", "i", "r", "e">>
kwRequireMacros == kwRequire \o <<"-", "m", "a", "c", "r", "o", "s">>
kwImport == <<":", "i", "m", "p", "o", "r", "t">>
kwUse == <<":", "u", "s", "e">>

\* The clauses enforceNSStyle puts every argument of on a line of its own.
MultipleArgs ==
    {Tail(kwRequire), Tail(kwRequireMacros), Tail(kwUse), Tail(kwImport),
     <<"l", "o", "a", "d">>, <<"g", "e", "n", "-", "c", "l", "a", "s", "s">>}

ReferClojure == <<"r", "e", "f", "e", "r", "-", "c", "l", "o", "j", "u", "r", "e">>

listToVector(n, site) ==
    IF n.typ = "ListNode" THEN alloc("VectorNode", <<>>, n.ch, <<site, addr(n)>>) ELSE n

enforceRequireStyle(nodes) ==
    [i \in 1..Len(nodes) |->
        LET n == nodes[i]
            v == CASE n.typ = "ListNode" -> listToVector(n, "enforceRequireStyle")
                   [] n.typ = "SymbolNode" ->
                          alloc("VectorNode", <<>>, <<n>>, <<"enforceRequireStyle", addr(n)>>)
                   [] OTHER -> n
        IN IF n.typ \notin {"ListNode", "SymbolNode", "VectorNode"}
           THEN n
           ELSE [v EXCEPT !.ch = [j \in 1..Len(v.ch) |->
                                    listToVector(v.ch[j], "enforceRequireStyle.child")]]]

LastIndexByte(name, c) ==
    IF \E i \in 1..Len(name) : name[i] = c
    THEN CHOOSE i \in 1..Len(name) :
            name[i] = c /\ \A j \in (i + 1)..Len(name) : name[j] /= c
    ELSE 0

enforceImportStyle(nodes) ==
    [i \in 1..Len(nodes) |->
        LET n == nodes[i]
            j == LastIndexByte(n.val, ".")
        IN CASE n.typ = "VectorNode" ->
                    alloc("ListNode", <<>>, n.ch, <<"enforceImportStyle", addr(n)>>)
             [] n.typ = "SymbolNode" /\ j > 0 ->
                    alloc("ListNode", <<>>,
                          <<alloc("SymbolNode", SubSeq(n.val, 1, j - 1), <<>>,
                                  <<"enforceImportStyle.package", addr(n)>>),
                            alloc("SymbolNode", SubSeq(n.val, j + 1, Len(n.val)), <<>>,
                                  <<"enforceImportStyle.class", addr(n)>>)>>,
                          <<"enforceImportStyle", addr(n)>>)
             [] OTHER -> n]

\* The body of the loop of enforceNSStyle for the child n of the ns form.
enforceClauseStyle(n) ==
    LET c0 == n.ch[1]
        isSym == c0.typ = "SymbolNode"
        clause == IF isSym THEN c0.val ELSE Tail(c0.val)
        keyed == IF isSym
                 THEN [n.ch EXCEPT ![1] = alloc("KeywordNode", <<":">> \o clause, <<>>,
                                                <<"enforceNSStyle.KeywordNode", addr(n)>>)]
                 ELSE n.ch
        split == IF clause \in MultipleArgs /\ Len(keyed) >= 2 /\ Semantic(keyed[2])
                 THEN <<keyed[1], newline>> \o Tail(keyed)
                 ELSE keyed
        clauseChildren ==
            CASE clause \in {Tail(kwRequire), Tail(kwRequireMacros)} -> enforceRequireStyle(split)
              [] clause = Tail(kwImport) -> enforceImportStyle(split)
              [] OTHER -> split
    IN CASE n.typ \notin {"ListNode", "VectorNode"} -> n
         [] n.ch = <<>> -> n
         [] c0.typ \notin {"KeywordNode", "SymbolNode"} -> n
         [] clause \notin MultipleArgs \cup {ReferClojure} -> n
         [] n.typ = "VectorNode" ->
                alloc("ListNode", <<>>, clauseChildren, <<"enforceNSStyle.ListNode", addr(n)>>)
         [] OTHER -> [n EXCEPT !.ch = clauseChildren]

enforceNSStyle(ns) ==
    [ns EXCEPT !.ch = [i \in 1..Len(ns.ch) |->
                          IF i = 1 THEN ns.ch[1] ELSE enforceClauseStyle(ns.ch[i])]]

\* getImportRequireSortKey: <<key, ok>>.
getImportRequireSortKey(n) ==
    CASE n.typ = "SymbolNode" -> <<n.val, TRUE>>
      [] n.typ \in {"ListNode", "VectorNode"} /\ n.ch /= <<>> /\ n.ch[1].typ = "SymbolNode" ->
             <<n.ch[1].val, TRUE>>
      [] OTHER -> <<<<>>, FALSE>>

\* importRequireList.Less
Less(a, b) ==
    LET k0 == getImportRequireSortKey(a.node)
        k1 == getImportRequireSortKey(b.node)
    IN k0[2] /\ (k1[2] => strLess(k0[1], k1[1]))

\* sort.Stable: every element goes behind the elements that are not greater.
RECURSIVE Stable(_)
Stable(l) ==
    IF l = <<>> THEN <<>>
    ELSE LET done == Stable(SubSeq(l, 1, Len(l) - 1))
             x == l[Len(l)]
             k == IF \E j \in 1..Len(done) : ~Less(x, done[j])
                  THEN CHOOSE j \in 1..Len(done) :
                          ~Less(x, done[j]) /\ \A m \in (j + 1)..Len(done) : Less(x, done[m])
                  ELSE 0
         IN SubSeq(done, 1, k) \o <<x>> \o SubSeq(done, k + 1, Len(done))

\* The first loop of sortImportRequire over nodes[1:], from index i (0-based).
RECURSIVE scanImportRequire(_, _, _)
scanImportRequire(nodes, i, st) ==
    IF i >= Len(nodes) THEN st
    ELSE LET node == nodes[i + 1]
             last == Len(st.sorted)
         IN scanImportRequire(nodes, i + 1,
              CASE Comment(node) /\ st.afterSemanticNode ->
                       [st EXCEPT !.sorted[last].commentBeside = <<node>>]
                [] Comment(node) -> [st EXCEPT !.lineComments = Append(@, node)]
                [] Newline(node) ->
                       [st EXCEPT !.initialNewline = @ \/ i = 0, !.afterSemanticNode = FALSE]
                [] OTHER ->
                       [st EXCEPT !.sorted = Append(@, [commentsAbove |-> st.lineComments,
                                                        commentBeside |-> <<>>,
                                                        node |-> node]),
                                  !.lineComments = <<>>,
                                  !.afterSemanticNode = TRUE])

\* cn, newline for every comment of cs
RECURSIVE commentLines(_)
commentLines(cs) ==
    IF cs = <<>> THEN <<>> ELSE <<Head(cs), newline>> \o commentLines(Tail(cs))

RECURSIVE renderSorted(_)
renderSorted(sorted) ==
    IF sorted = <<>> THEN <<>>
    ELSE LET ir == Head(sorted)
         IN commentLines(ir.commentsAbove) \o <<ir.node>> \o ir.commentBeside
              \o <<newline>> \o renderSorted(Tail(sorted))

sortImportRequire(n) ==
    LET nodes == n.ch
        st == scanImportRequire(Tail(nodes), 0,
                                [sorted |-> <<>>, lineComments |-> <<>>,
                                 initialNewline |-> FALSE, afterSemanticNode |-> FALSE])
        newNodes == <<nodes[1]>> \o (IF st.initialNewline THEN <<newline>> ELSE <<>>)
                      \o renderSorted(Stable(st.sorted)) \o commentLines(st.lineComments)
    IN [n EXCEPT !.ch = IF Len(newNodes) >= 2 /\ ~Comment(newNodes[Len(newNodes) - 1])
                        THEN SubSeq(newNodes, 1, Len(newNodes) - 1)
                        ELSE newNodes]

sortNS(ns) ==
    [ns EXCEPT !.ch = [i \in 1..Len(ns.ch) |->
                          IF i > 1 /\ FnFormKeyword(ns.ch[i], {kwRequire, kwRequireMacros, kwImport})
                          THEN sortImportRequire(ns.ch[i])
                          ELSE ns.ch[i]]]

\* The forms enforceConsistentIfNewlinesRec rewrites.
IfForms == {<<"i", "f">>, <<"i", "f", "-", "n", "o", "t">>, <<"i", "f", "-", "s", "o", "m", "e">>, <<"i", "f", "-", "l", "e", "t">>}

\* The index of the first semantic node of nodes at or after index i, 0 when
\* there is none.
nextSemantic(nodes, i) ==
    IF \E j \in i..Len(nodes) : Semantic(nodes[j])
    THEN CHOOSE j \in i..Len(nodes) :
            Semantic(nodes[j]) /\ \A k \in i..(j - 1) : ~Semantic(nodes[k])
    ELSE 0

\* enforceConsistentIfNewlines. The first loop runs from the node after the
\* operator to the second semantic node (the first arm) and notes every
\* newline it passes, those before the test too; the second loop runs from
\* there to the next semantic node (the second arm).
enforceConsistentIfNewlines(nodes) ==
    LET test == nextSemantic(nodes, 2)
        arm0 == IF test = 0 THEN 0 ELSE nextSemantic(nodes, test + 1)
        arm1 == IF arm0 = 0 THEN 0 ELSE nextSemantic(nodes, arm0 + 1)
        newlineBeforeArm0 == \E j \in 2..(arm0 - 1) : Newline(nodes[j])
        newlineBeforeArm1 == \E j \in (arm0 + 1)..(arm1 - 1) : Newline(nodes[j])
        insert(at) == SubSeq(nodes, 1, at - 1) \o <<Node("NewlineNode", NoPos, <<>>, <<>>)>>
                        \o SubSeq(nodes, at, Len(nodes))
    IN CASE arm1 = 0 -> nodes
         [] arm1 /= 0 /\ newlineBeforeArm0 /\ ~newlineBeforeArm1 -> insert(arm1)
         [] arm1 /= 0 /\ ~newlineBeforeArm0 /\ newlineBeforeArm1 -> insert(arm0)
         [] OTHER -> nodes

RECURSIVE enforceConsistentIfNewlinesRec(_)
enforceConsistentIfNewlinesRec(n) ==
    LET nodes == IF FnFormSymbol(n, IfForms) THEN enforceConsistentIfNewlines(n.ch) ELSE n.ch
    IN [n EXCEPT !.ch = [i \in 1..Len(nodes) |-> enforceConsistentIfNewlinesRec(nodes[i])]]

-----------------------------------------------------------------------------
(* format/require.go: the requires of an ns form, as useToRequire collects *)
(* and renders them.  A nil slice or map is the empty one; a referList     *)
(* notes in moved whether its refer map has been made.                     *)

nodeComments == [commentsAbove |-> <<>>, commentBeside |-> <<>>, commentsBesideMerged |-> FALSE]

attachCommentsAbove(nc, cs) == [nc EXCEPT !.commentsAbove = @ \o cs]

attachCommentBeside(nc, c) ==
    CASE nc.commentBeside = <<>> /\ ~nc.commentsBesideMerged -> [nc EXCEPT !.commentBeside = <<c>>]
      [] nc.commentBeside /= <<>> ->
             [nc EXCEPT !.commentsAbove = @ \o nc.commentBeside \o <<c>>,
                        !.commentBeside = <<>>,
                        !.commentsBesideMerged = TRUE]
      [] OTHER -> [nc EXCEPT !.commentsAbove = Append(@, c)]

referList == [origRefer |-> <<>>, refer |-> {}, moved |-> FALSE]

newRequire(name) ==
    [name |-> name, as |-> {}, referAll |-> FALSE, refer |-> referList,
     referMacros |-> referList, comments |-> nodeComments]

symbolVals(nodes) == {nodes[i].val : i \in {j \in 1..Len(nodes) : nodes[j].typ = "SymbolNode"}}

extractOrigRefer(rl) == [origRefer |-> <<>>, refer |-> symbolVals(rl.origRefer), moved |-> TRUE]

\* referList.merge
mergeRefer(rl, rl1) ==
    CASE rl1.origRefer = <<>> -> rl
      [] rl.origRefer = <<>> /\ ~rl.moved -> [rl EXCEPT !.origRefer = rl1.origRefer]
      [] rl.origRefer /= <<>> ->
             [extractOrigRefer(rl) EXCEPT !.refer = @ \cup symbolVals(rl1.origRefer)]
      [] OTHER -> [rl EXCEPT !.refer = @ \cup symbolVals(rl1.origRefer)]

RECURSIVE sortStringSet(_)
sortStringSet(set) ==
    IF set = {} THEN <<>>
    ELSE LET least == CHOOSE x \in set : \A y \in set \ {x} : strLess(x, y)
         IN <<least>> \o sortStringSet(set \ {least})

\* referList.render: the vector, or nothing
renderRefer(rl, id) ==
    LET ss == sortStringSet(rl.refer)
    IN CASE rl.origRefer /= <<>> -> <<alloc("VectorNode", <<>>, rl.origRefer, id)>>
         [] rl.refer = {} -> <<>>
         [] OTHER -> <<alloc("VectorNode", <<>>,
                             [i \in 1..Len(ss) |-> alloc("SymbolNode", ss[i], <<>>, <<id, i>>)],
                             id)>>

\* requireList.merge: the list with r merged in
mergeRequire(rl, r) ==
    IF r.name \notin DOMAIN rl.m
    THEN [rl EXCEPT !.m = @ @@ (r.name :> r)]
    ELSE [rl EXCEPT !.m[r.name] =
             [@ EXCEPT !.as = @ \cup r.as,
                       !.referAll = @ \/ r.referAll,
                       !.refer = mergeRefer(@, r.refer),
                       !.referMacros = mergeRefer(@, r.referMacros)]]

kwAs == <<":", "a", "s">>
kwRefer == <<":", "r", "e", "f", "e", "r">>
kwReferMacros == kwRefer \o <<"-", "m", "a", "c", "r", "o", "s">>
kwOnly == <<":", "o", "n", "l", "y">>

\* The loop of parseRequireSeq over the pairs from pair i on: the require,
\* or nothing.
RECURSIVE parseRequirePairs(_, _, _)
parseRequirePairs(semNodes, i, r) ==
    IF 2 * i + 1 > Len(semNodes) THEN <<r>>
    ELSE LET k == semNodes[2 * i]
             v == semNodes[2 * i + 1]
         IN CASE k.typ /= "KeywordNode" -> <<>>
              [] k.val = kwAs ->
                     IF v.typ /= "SymbolNode" THEN <<>>
                     ELSE parseRequirePairs(semNodes, i + 1, [r EXCEPT !.as = {v.val}])
              [] k.val \in {kwRefer, kwReferMacros} ->
                     IF \/ v.typ \notin {"ListNode", "VectorNode"}
                        \/ \E j \in 1..Len(v.ch) : Semantic(v.ch[j]) /\ v.ch[j].typ /= "SymbolNode"
                     THEN <<>>
                     ELSE parseRequirePairs(semNodes, i + 1,
                             IF k.val = kwRefer
                             THEN [r EXCEPT !.refer.origRefer = v.ch]
                             ELSE [r EXCEPT !.referMacros.origRefer = v.ch])
              [] OTHER -> <<>>

parseRequireSeq(nodes) ==
    LET semNodes == SelectSeq(nodes, Semantic)
    IN CASE semNodes = <<>> -> <<>>
         [] semNodes[1].typ /= "SymbolNode" -> <<>>
         [] (Len(semNodes) - 1) % 2 /= 0 -> <<>>
         [] OTHER -> parseRequirePairs(semNodes, 1, newRequire(semNodes[1].val))

parseRequire(n) ==
    CASE n.typ = "SymbolNode" -> <<newRequire(n.val)>>
      [] n.typ \in {"ListNode", "VectorNode"} -> parseRequireSeq(n.ch)
      [] OTHER -> <<>>

parseUseSeq(nodes) ==
    CASE nodes = <<>> -> <<>>
      [] nodes[1].typ /= "SymbolNode" -> <<>>
      [] Len(nodes) = 1 -> <<[newRequire(nodes[1].val) EXCEPT !.referAll = TRUE]>>
      [] Len(nodes) = 3 /\ nodes[2].typ = "KeywordNode" /\ nodes[2].val = kwAs
           /\ nodes[3].typ = "SymbolNode" ->
             <<[newRequire(nodes[1].val) EXCEPT !.as = {nodes[3].val}]>>
      [] Len(nodes) = 3 /\ nodes[2].typ = "KeywordNode" /\ nodes[2].val = kwOnly
           /\ nodes[3].typ \in {"ListNode", "VectorNode"}
           /\ \A j \in 1..Len(nodes[3].ch) :
                 nodes[3].ch[j].typ \in {"SymbolNode", "CommentNode", "NewlineNode"} ->
             <<[newRequire(nodes[1].val) EXCEPT !.refer.origRefer = nodes[3].ch]>>
      [] OTHER -> <<>>

parseUse(n) ==
    CASE n.typ = "SymbolNode" -> <<[newRequire(n.val) EXCEPT !.referAll = TRUE]>>
      [] n.typ \in {"ListNode", "VectorNode"} -> parseUseSeq(n.ch)
      [] OTHER -> <<>>

newRequireList ==
    [m |-> <<>>, macros |-> FALSE, extraRequire |-> <<>>, extraUse |-> <<>>,
     commentsBelow |-> <<>>]

\* What prevComments points at: the comments of a require of rl.m or of an
\* extra node.
setComments(rl, at, nc) ==
    CASE at[1] = "m" -> [rl EXCEPT !.m[at[2]].comments = nc]
      [] at[1] = "extraRequire" -> [rl EXCEPT !.extraRequire[at[2]].comments = nc]
      [] at[1] = "extraUse" -> [rl EXCEPT !.extraUse[at[2]].comments = nc]

getComments(rl, at) ==
    CASE at[1] = "m" -> rl.m[at[2]].comments
      [] at[1] = "extraRequire" -> rl.extraRequire[at[2]].comments
      [] at[1] = "extraUse" -> rl.extraUse[at[2]].comments

\* The loop of parseRequireUse over nodes[1:], from index i (1-based) on.
RECURSIVE parseRequireUseLoop(_, _, _, _)
parseRequireUseLoop(nodes, i, use, st) ==
    IF i > Len(nodes)
    THEN [st.rl EXCEPT !.commentsBelow = @ \o st.lineComments]
    ELSE LET node == nodes[i]
             rl == st.rl
             parsed == IF use THEN parseUse(node) ELSE parseRequire(node)
             extra == IF use THEN "extraUse" ELSE "extraRequire"
             added == IF parsed /= <<>>
                      THEN [rl |-> mergeRequire(rl, parsed[1]), at |-> <<"m", parsed[1].name>>]
                      ELSE [rl |-> [rl EXCEPT ![extra] =
                                       Append(@, [n |-> node, comments |-> nodeComments])],
                            at |-> <<extra, Len(rl[extra]) + 1>>]
         IN parseRequireUseLoop(nodes, i + 1, use,
              CASE Comment(node) /\ st.afterSemanticNode ->
                       [st EXCEPT !.rl = setComments(rl, st.prevComments,
                                             attachCommentBeside(getComments(rl, st.prevComments),
                                                                 node))]
                [] Comment(node) -> [st EXCEPT !.lineComments = Append(@, node)]
                [] Newline(node) -> [st EXCEPT !.afterSemanticNode = FALSE]
                [] OTHER ->
                       [rl |-> setComments(added.rl, added.at,
                                           attachCommentsAbove(getComments(added.rl, added.at),
                                                               st.lineComments)),
                        prevComments |-> added.at,
                        lineComments |-> <<>>,
                        afterSemanticNode |-> TRUE])

parseRequireUse(rl, nodes, use) ==
    parseRequireUseLoop(nodes, 2, use,
        [rl |-> [rl EXCEPT !.macros = @ \/ nodes[1].val \in {kwRequireMacros,
                                                            <<":", "u", "s", "e", "-", "m", "a", "c", "r", "o", "s">>}],
         prevComments |-> <<>>, lineComments |-> <<>>, afterSemanticNode |-> FALSE])

\* for k := range m: the keys of the map in the order this run visits them.
range(m) == SelectSeq(seed, LAMBDA k : k \in DOMAIN m)

\* The nodes requireList.render appends for the require r.
renderRequire(r) ==
    LET as == sortStringSet(r.as)
        early == [i \in 1..(Len(as) - 1) |->
                     alloc("VectorNode", <<>>,
                           <<alloc("SymbolNode", r.name, <<>>, <<"render.name", r.name, i>>),
                             alloc("KeywordNode", kwAs, <<>>, <<"render.:as", r.name, i>>),
                             alloc("SymbolNode", as[i], <<>>, <<"render.as", r.name, i>>)>>,
                           <<"render.VectorNode", r.name, i>>)]
        refer == renderRefer(r.refer, <<"render.refer", r.name>>)
        referMacros == renderRefer(r.referMacros, <<"render.referMacros", r.name>>)
        parts == <<alloc("SymbolNode", r.name, <<>>, <<"render.name", r.name, 0>>)>>
                   \o (IF as /= <<>>
                       THEN <<alloc("KeywordNode", kwAs, <<>>, <<"render.:as", r.name, 0>>),
                              alloc("SymbolNode", as[Len(as)], <<>>, <<"render.as", r.name, 0>>)>>
                       ELSE <<>>)
                   \o (IF r.referAll
                       THEN <<alloc("KeywordNode", kwRefer, <<>>, <<"render.:refer", r.name>>),
                              alloc("KeywordNode", <<":", "a", "l", "l">>, <<>>,
                                    <<"render.:all", r.name>>)>>
                       ELSE (IF refer /= <<>>
                             THEN <<alloc("KeywordNode", kwRefer, <<>>,
                                          <<"render.:refer", r.name>>)>> \o refer
                             ELSE <<>>)
                            \o (IF referMacros /= <<>>
                                THEN <<alloc("KeywordNode", kwReferMacros, <<>>,
                                             <<"render.:refer-macros", r.name>>)>> \o referMacros
                                ELSE <<>>))
    IN commentLines(r.comments.commentsAbove)
         \o commentLines(early)
         \o <<alloc("VectorNode", <<>>, parts, <<"render.VectorNode", r.name, 0>>)>>
         \o r.comments.commentBeside \o <<newline>>

RECURSIVE renderRequires(_, _)
renderRequires(m, keys) ==
    IF keys = <<>> THEN <<>>
    ELSE renderRequire(m[Head(keys)]) \o renderRequires(m, Tail(keys))

\* The nodes requireList.render appends for the unrecognised nodes extra.
RECURSIVE renderExtra(_)
renderExtra(extra) ==
    IF extra = <<>> THEN <<>>
    ELSE commentLines(Head(extra).comments.commentsAbove) \o <<Head(extra).n>>
           \o Head(extra).comments.commentBeside \o <<newline>> \o renderExtra(Tail(extra))

\* requireList.render
render(rl, id) ==
    LET nodes == <<alloc("KeywordNode", IF rl.macros THEN kwRequireMacros ELSE kwRequire, <<>>,
                         <<"render.KeywordNode", id>>)>>
                   \o renderRequires(rl.m, range(rl.m))
                   \o renderExtra(rl.extraRequire)
                   \o commentLines(rl.commentsBelow)
    IN <<alloc("ListNode", <<>>, nodes, <<"render.ListNode", id>>), newline>>
         \o (IF rl.extraUse /= <<>>
             THEN <<alloc("ListNode", <<>>,
                          <<alloc("KeywordNode", kwUse, <<>>, <<"render.:use", id>>)>>
                             \o renderExtra(rl.extraUse),
                          <<"render.extraUse", id>>),
                    newline>>
             ELSE <<>>)

\* The loop of useToRequire over ns.Children()[1:], from index k (1-based).
RECURSIVE useToRequireLoop(_, _, _)
useToRequireLoop(children, k, st) ==
    IF k > Len(children) THEN st
    ELSE LET n == children[k]
         IN useToRequireLoop(children, k + 1,
              CASE st.prevSkipped /\ Newline(n) -> [st EXCEPT !.prevSkipped = FALSE]
                [] FnFormKeyword(n, {kwRequire, kwUse}) ->
                       [st EXCEPT !.rl = parseRequireUse(@, n.ch, n.ch[1].val = kwUse),
                                  !.insertIndex = IF @ = -1 THEN st.i + 1 ELSE @,
                                  !.prevSkipped = TRUE]
                [] OTHER -> [st EXCEPT !.nodes = Append(@, n), !.i = @ + 1,
                                       !.prevSkipped = FALSE])

useToRequire(ns) ==
    LET st == useToRequireLoop(ns.ch, 2,
                  [rl |-> newRequireList, insertIndex |-> -1, prevSkipped |-> FALSE,
                   nodes |-> <<alloc("SymbolNode", <<"n", "s">>, <<>>,
                                     <<"useToRequire.SymbolNode", addr(ns)>>)>>,
                   i |-> 0])
    IN [ns EXCEPT !.ch = IF st.insertIndex = -1 THEN st.nodes
                         ELSE SubSeq(st.nodes, 1, st.insertIndex)
                                \o render(st.rl, addr(ns))
                                \o SubSeq(st.nodes, st.insertIndex + 1, Len(st.nodes))]

\* The transforms in the order the loop of applyTransforms tries them on a
\* root.
TransformOrder ==
    <<"TransformUseToRequire", "TransformEnforceNSStyle", "TransformSortImportRequire",
      "TransformRemoveTrailingNewlines", "TransformFixDefnArglistNewline",
      "TransformFixDefmethodDispatchValNewline", "TransformRemoveExtraBlankLines",
      "TransformFixIfNewlineConsistency">>

\* One if statement of the loop of applyTransforms: the root after it.
applyTransform(k, root) ==
    CASE k = "TransformUseToRequire" /\ FnFormSymbol(root, {<<"n", "s">>}) ->
             useToRequire(root)
      [] k = "TransformEnforceNSStyle" /\ FnFormSymbol(root, {<<"n", "s">>}) ->
             enforceNSStyle(root)
      [] k = "TransformSortImportRequire" /\ FnFormSymbol(root, {<<"n", "s">>}) ->
             sortNS(root)
      [] k = "TransformRemoveTrailingNewlines" -> removeTrailingNewlines(root)
      [] k = "TransformFixDefnArglistNewline"
           /\ FnFormSymbol(root, {<<"d", "e", "f", "n">>}) -> fixDefnArglist(root)
      [] k = "TransformFixDefmethodDispatchValNewline"
           /\ FnFormSymbol(root, {<<"d", "e", "f", "m", "e", "t", "h", "o", "d">>}) ->
             fixDefmethodDispatchVal(root)
      [] k = "TransformRemoveExtraBlankLines" -> removeExtraBlankLinesRec(root)
      [] k = "TransformFixIfNewlineConsistency" -> enforceConsistentIfNewlinesRec(root)
      [] OTHER -> root

RECURSIVE transformRootFrom(_, _, _)
transformRootFrom(i, root, transforms) ==
    IF i > Len(TransformOrder) THEN root
    ELSE transformRootFrom(i + 1,
                           IF enabled(transforms, TransformOrder[i])
                           THEN applyTransform(TransformOrder[i], root) ELSE root,
                           transforms)

\* The body of the loop of applyTransforms for the root.
transformRoot(root, transforms) == transformRootFrom(1, root, transforms)

\* applyTransforms: the new t.Roots.
applyTransforms(rts, transforms) ==
    LET rs == [i \in 1..Len(rts) |-> transformRoot(rts[i], transforms)]
    IN IF enabled(transforms, "TransformRemoveExtraBlankLines")
       THEN removeExtraBlankLines(rs) ELSE rs

\* applyTransforms panics with a nil dereference when removeTrailingNewlines
\* or removeExtraBlankLinesRec walks into a wrapper that holds no node.
applyTransformsPanics(rts, transforms) ==
    /\ \/ enabled(transforms, "TransformRemoveTrailingNewlines")
       \/ enabled(transforms, "TransformRemoveExtraBlankLines")
       \/ enabled(transforms, "TransformFixIfNewlineConsistency")
    /\ \E i \in 1..Len(rts) : hasNil(rts[i])

-----------------------------------------------------------------------------
(* format/format.go: indent styles.                                        *)

defaultIndents ==
       (<<"a", "s", "-", ">">> :> "IndentListBody")
    @@ (<<"a", "s", "s", "o", "c">> :> "IndentCond1")
    @@ (<<"b", "i", "n", "d", "i", "n", "g">> :> "IndentLet")
    @@ (<<"b", "o", "u", "n", "d", "-", "f", "n">> :> "IndentListBody")
    @@ (<<"c", "a", "s", "e">> :> "IndentCond1")
    @@ (<<"c", "a", "t", "c", "h">> :> "IndentListBody")
    @@ (<<"c", "o", "n", "d">> :> "IndentCond0")
    @@ (<<"c", "o", "n", "d", "-", ">">> :> "IndentCond1")
    @@ (<<"c", "o", "n", "d", "-", ">", ">">> :> "IndentCond1")
    @@ (<<"c", "o", "n", "d", "p">> :> "IndentCond2")
    @@ (<<"d", "e", "f">> :> "IndentListBody")
    @@ (<<"d", "e", "f", "i", "n", "l", "i", "n", "e">> :> "IndentListBody")
    @@ (<<"d", "e", "f", "i", "n", "t", "e", "r", "f", "a", "c", "e">> :> "IndentDeftype")
    @@ (<<"d", "e", "f", "m", "a", "c", "r", "o">> :> "IndentListBody")
    @@ (<<"d", "e", "f", "m", "e", "t", "h", "o", "d">> :> "IndentListBody")
    @@ (<<"d", "e", "f", "m", "u", "l", "t", "i">> :> "IndentListBody")
    @@ (<<"d", "e", "f", "n">> :> "IndentListBody")
    @@ (<<"d", "e", "f", "n", "-">> :> "IndentListBody")
    @@ (<<"d", "e", "f", "o", "n", "c", "e">> :> "IndentListBody")
    @@ (<<"d", "e", "f", "p", "r", "o", "j", "e", "c", "t">> :> "IndentCond2")
    @@ (<<"d", "e", "f", "p", "r", "o", "t", "o", "c", "o", "l">> :> "IndentDeftype")
    @@ (<<"d", "e", "f", "r", "e", "c", "o", "r", "d">> :> "IndentDeftype")
    @@ (<<"d", "e", "f", "s", "t", "r", "u", "c", "t">> :> "IndentListBody")
    @@ (<<"d", "e", "f", "t", "e", "s", "t">> :> "IndentListBody")
    @@ (<<"d", "e", "f", "t", "e", "s", "t", "-">> :> "IndentListBody")
    @@ (<<"d", "e", "f", "t", "y", "p", "e">> :> "IndentDeftype")
    @@ (<<"d", "o", "s", "e", "q">> :> "IndentFor")
    @@ (<<"d", "o", "t", "i", "m", "e", "s">> :> "IndentLet")
    @@ (<<"d", "o", "t", "o">> :> "IndentListBody")
    @@ (<<"e", "x", "t", "e", "n", "d">> :> "IndentListBody")
    @@ (<<"e", "x", "t", "e", "n", "d", "-", "p", "r", "o", "t", "o", "c", "o", "l">> :> "IndentDeftype")
    @@ (<<"e", "x", "t", "e", "n", "d", "-", "t", "y", "p", "e">> :> "IndentDeftype")
    @@ (<<"f", "n">> :> "IndentListBody")
    @@ (<<"f", "o", "r">> :> "IndentFor")
    @@ (<<"i", "f">> :> "IndentListBody")
    @@ (<<"i", "f", "-", "l", "e", "t">> :> "IndentLet")
    @@ (<<"i", "f", "-", "n", "o", "t">> :> "IndentListBody")
    @@ (<<"i", "f", "-", "s", "o", "m", "e">> :> "IndentLet")
    @@ (<<"l", "e", "t">> :> "IndentLet")
    @@ (<<"l", "e", "t", "f", "n">> :> "IndentLetfn")
    @@ (<<"l", "o", "c", "k", "i", "n", "g">> :> "IndentListBody")
    @@ (<<"l", "o", "o", "p">> :> "IndentLet")
    @@ (<<"n", "s">> :> "IndentListBody")
    @@ (<<"p", "r", "o", "x", "y">> :> "IndentDeftype")
    @@ (<<"r", "e", "i", "f", "y">> :> "IndentDeftype")
    @@ (<<"s", "e", "n", "d", "-", "o", "f", "f">> :> "IndentListBody")
    @@ (<<"s", "e", "t", "-", "t", "e", "s", "t">> :> "IndentListBody")
    @@ (<<"t", "e", "s", "t", "i", "n", "g">> :> "IndentListBody")
    @@ (<<"u", "p", "d", "a", "t", "e">> :> "IndentListBody")
    @@ (<<"u", "p", "d", "a", "t", "e", "-", "i", "n">> :> "IndentListBody")
    @@ (<<"w", "h", "e", "n">> :> "IndentListBody")
    @@ (<<"w", "h", "e", "n", "-", "f", "i", "r", "s", "t">> :> "IndentLet")
    @@ (<<"w", "h", "e", "n", "-", "l", "e", "t">> :> "IndentLet")
    @@ (<<"w", "h", "e", "n", "-", "n", "o", "t">> :> "IndentListBody")
    @@ (<<"w", "h", "e", "n", "-", "s", "o", "m", "e">> :> "IndentLet")
    @@ (<<"w", "h", "i", "l", "e">> :> "IndentListBody")
    @@ (<<"w", "i", "t", "h", "-", "b", "i", "n", "d", "i", "n", "g", "s">> :> "IndentListBody")
    @@ (<<"w", "i", "t", "h", "-", "i", "n", "-", "s", "t", "r">> :> "IndentListBody")
    @@ (<<"w", "i", "t", "h", "-", "l", "o", "c", "a", "l", "-", "v", "a", "r", "s">> :> "IndentLet")
    @@ (<<"w", "i", "t", "h", "-", "o", "p", "e", "n">> :> "IndentLet")
    @@ (<<"w", "i", "t", "h", "-", "p", "r", "e", "c", "i", "s", "i", "o", "n">> :> "IndentListBody")
    @@ (<<"w", "i", "t", "h", "-", "r", "e", "d", "e", "f", "s">> :> "IndentLet")
    @@ (<<"w", "i", "t", "h", "-", "r", "e", "d", "e", "f", "s", "-", "f", "n">> :> "IndentListBody")
    @@ (<<"w", "i", "t", "h", "-", "t", "e", "s", "t">> :> "IndentListBody")

defaultThreadFirstStyles ==
       (<<"-", ">">> :> "ThreadFirstNormal")
    @@ (<<"c", "o", "n", "d", "-", ">">> :> "ThreadFirstCondArrow")
    @@ (<<"s", "o", "m", "e", "-", ">">> :> "ThreadFirstNormal")

indentExtraOffsets(style) ==
    CASE style = "IndentCond0" -> 1
      [] style = "IndentCond1" -> 2
      [] style = "IndentCond2" -> 3
      [] style = "IndentCond4" -> 5
      [] OTHER -> 0

threadFirstTransform(style) ==
    CASE style = "IndentCond1" -> "IndentCond0"
      [] style = "IndentCond2" -> "IndentCond1"
      [] OTHER -> style

indentListMaxCommentAlign == 12

isKeywordNode(n, kw) == n.typ = "KeywordNode" /\ n.val = kw

\* strings.LastIndex(name, "/"), 1-based; 0 when there is none.
LastIndex(name) ==
    IF \E i \in 1..Len(name) : name[i] = "/"
    THEN CHOOSE i \in 1..Len(name) :
            name[i] = "/" /\ \A j \in (i + 1)..Len(name) : name[j] /= "/"
    ELSE 0

HasPrefix(s, prefix) ==
    Len(s) >= Len(prefix) /\ SubSeq(s, 1, Len(prefix)) = prefix

symbolName(sym) == SubSeq(sym, LastIndex(sym) + 1, Len(sym))

-----------------------------------------------------------------------------
(* format/format.go: the printer.  The state of a Printer that printing    *)
(* reads and changes is the record                                         *)
(*   [out, st, indentStyles, threadFirstStyles, specialIndent, threadFirst, *)
(*    docstrings, requires, refers]                                        *)
(* where out is the text written so far and st is "ok" or "panic".  The    *)
(* maps keyed by node pointers are keyed here by the position of the node, *)
(* which no two nodes of a parsed tree share.  markRequires fills requires *)
(* and refers from (ns ...) forms only, so both stay empty here.           *)

NewPrinter ==
    [out |-> <<>>, st |-> "ok", indentStyles |-> <<>>, threadFirstStyles |-> <<>>,
     specialIndent |-> <<>>, threadFirst |-> {}, docstrings |-> {},
     requires |-> <<>>, refers |-> <<>>]

\* bufWriter.writeString (writeByte is the case of one byte); nothing is
\* written once the printer has panicked.
writeString(P, s) == IF P.st = "ok" THEN [P EXCEPT !.out = @ \o s] ELSE P

\* A panic that PrintTree does not recover: neither bufErr nor fmtErr.
panic(P) == [P EXCEPT !.st = "panic"]

\* delete(m, k)
delete(m, k) == [x \in (DOMAIN m) \ {k} |-> m[x]]

\* The result of indentStyleForSymbol: the style, or "" for ok = false.
indentStyleForSymbol(name, P) ==
    LET i == LastIndex(name)
        ns == SubSeq(name, 1, i - 1)
        unqualified == SubSeq(name, i + 1, Len(name))
        viaRequire == IF i > 0 /\ ns \in DOMAIN P.requires
                      THEN P.requires[ns] \o <<"/">> \o unqualified ELSE <<>>
        viaRefer == IF i = 0 /\ name \in DOMAIN P.refers
                    THEN P.refers[name] \o <<"/">> \o name ELSE <<>>
    IN CASE i > 0 /\ ns \in DOMAIN P.requires /\ viaRequire \in DOMAIN P.indentStyles ->
                P.indentStyles[viaRequire]
         [] i > 0 /\ unqualified \in DOMAIN P.indentStyles -> P.indentStyles[unqualified]
         [] i = 0 /\ name \in DOMAIN P.refers /\ viaRefer \in DOMAIN P.indentStyles ->
                P.indentStyles[viaRefer]
         [] name \in DOMAIN P.indentStyles -> P.indentStyles[name]
         [] OTHER -> ""

chooseListIndent(name, P) ==
    LET style == indentStyleForSymbol(name, P)
        short == symbolName(name)
    IN CASE style /= "" -> style
         [] \E prefix \in {<<"d", "e", "f">>, <<"l", "e", "t">>,
                           <<"w", "i", "t", "h", "-">>, <<"w", "h", "e", "n", "-">>} :
                HasPrefix(short, prefix) -> "IndentListBody"
         [] OTHER -> "IndentList"

chooseIndent(nodes, P) ==
    CASE nodes = <<>> -> "IndentNormal"
      [] nodes[1].typ = "KeywordNode" -> "IndentList"
      [] nodes[1].typ = "SymbolNode" -> chooseListIndent(nodes[1].val, P)
      [] OTHER -> "IndentNormal"

\* p.specialIndent[node] = style for every node of the sequence nodes
mark(P, nodes, style) ==
    [P EXCEPT !.specialIndent =
        [k \in {nodes[i].pos : i \in 1..Len(nodes)} |-> style] @@ @]

\* The loop of applySpecialForLet: the vectors that follow a :let keyword at
\* an even place among the semantic nodes.
RECURSIVE forLetVectors(_, _, _)
forLetVectors(nodes, i, prevLet) ==
    IF nodes = <<>> THEN <<>>
    ELSE LET node == Head(nodes)
         IN IF ~Semantic(node) THEN forLetVectors(Tail(nodes), i, prevLet)
            ELSE (IF prevLet /\ Vector(node) THEN <<node>> ELSE <<>>)
                 \o forLetVectors(Tail(nodes), i + 1,
                                  (i + 1) % 2 = 0 /\ isKeywordNode(node, <<":", "l", "e", "t">>))

applySpecialForLet(nodes, P) == mark(P, forLetVectors(nodes, -1, FALSE), "indentBindings")

\* The first semantic node after nodes[0], as a sequence of at most one node.
firstSemanticArg(nodes) ==
    LET rest == SelectSeq(Tail(nodes), Semantic)
    IN IF rest = <<>> THEN <<>> ELSE <<Head(rest)>>

applySpecialFor(nodes, P) ==
    LET v == SelectSeq(firstSemanticArg(nodes), Vector)
    IN IF v = <<>> THEN P
       ELSE applySpecialForLet(v[1].ch, mark(P, v, "indentBindings"))

applySpecialLet(nodes, P) ==
    mark(P, SelectSeq(firstSemanticArg(nodes), Vector), "indentBindings")

isListNode(n) == n.typ = "ListNode"

\* applySpecialLetfn: the loop goes on over the semantic nodes while they are
\* vectors.
RECURSIVE applySpecialLetfnLoop(_, _)
applySpecialLetfnLoop(nodes, P) ==
    IF nodes = <<>> THEN P
    ELSE LET node == Head(nodes)
         IN CASE ~Semantic(node) -> applySpecialLetfnLoop(Tail(nodes), P)
              [] ~Vector(node) -> P
              [] OTHER -> applySpecialLetfnLoop(Tail(nodes),
                              mark(P, SelectSeq(node.ch, isListNode), "IndentListBody"))

applySpecialLetfn(nodes, P) == applySpecialLetfnLoop(Tail(nodes), P)

applySpecialDeftype(nodes, P) ==
    mark(P, SelectSeq(Tail(nodes), isListNode), "IndentListBody")

applySpecialIndentRules(node, P) ==
    IF node.ch = <<>> \/ node.ch[1].typ /= "SymbolNode" THEN P
    ELSE LET style == indentStyleForSymbol(node.ch[1].val, P)
         IN CASE style = "IndentLet" -> applySpecialLet(node.ch, P)
              [] style = "IndentLetfn" -> applySpecialLetfn(node.ch, P)
              [] style = "IndentFor" -> applySpecialFor(node.ch, P)
              [] style = "IndentDeftype" -> applySpecialDeftype(node.ch, P)
              [] OTHER -> P

\* strings.Repeat(string(p.IndentChar), w) with the IndentChar ' ' of
\* NewPrinter; Repeat panics for a negative count.
indent(w) == [i \in 1..w |-> " "]

\* strings.Split(s, "\n")
RECURSIVE Split(_)
Split(s) ==
    IF \A i \in 1..Len(s) : s[i] /= "\n" THEN <<s>>
    ELSE LET k == CHOOSE i \in 1..Len(s) :
                    s[i] = "\n" /\ \A j \in 1..(i - 1) : s[j] /= "\n"
         IN <<SubSeq(s, 1, k - 1)>> \o Split(SubSeq(s, k + 1, Len(s)))

\* unicode.IsSpace on the characters of the model
isSpace(r) == r \in {" ", "\t", "\n", "\r", "\f"}

RECURSIVE TrimSpace(_)
TrimSpace(s) ==
    CASE s = <<>> -> s
      [] isSpace(s[1]) -> TrimSpace(Tail(s))
      [] isSpace(s[Len(s)]) -> TrimSpace(SubSeq(s, 1, Len(s) - 1))
      [] OTHER -> s

\* The lines after the first, trimmed and indented, each after its "\n".
RECURSIVE alignLines(_, _)
alignLines(lines, w) ==
    IF lines = <<>> THEN <<>>
    ELSE LET line == TrimSpace(Head(lines))
         IN <<"\n">> \o (IF line /= <<>> THEN indent(w) \o line ELSE line)
                \o alignLines(Tail(lines), w)

alignDocstring(docstring, w) ==
    LET lines == Split(docstring)
    IN Head(lines) \o alignLines(Tail(lines), w)

\* The state of the loop of printSequence before node i (0-based).
SeqState(w, w2) ==
    [w |-> w, w2 |-> w2, needSpace |-> FALSE, needIndent |-> FALSE,
     firstIndent |-> 0, firstLen |-> 0, semanticIdx |-> 0, pairIdx |-> 0,
     extraIndent |-> FALSE]

\* The value a print function returns, with the printer state it leaves.
Printed(w, P) == [w |-> w, p |-> P]

WrapperPrefix(typ) ==
    CASE typ = "DerefNode" -> <<"@">>
      [] typ = "IgnoreFormNode" -> <<"#", "_">>
      [] typ = "MetadataNode" -> <<"^">>
      [] typ = "QuoteNode" -> <<"'">>
      [] typ = "SyntaxQuoteNode" -> <<Backtick>>
      [] typ = "UnquoteNode" -> <<"~">>
      [] typ = "UnquoteSpliceNode" -> <<"~", "@">>

\* w for a newline node at index i of the sequence
newlineIndent(style, i, L) ==
    CASE style \in {"IndentList", "IndentListBody", "IndentLet", "IndentLetfn",
                    "IndentFor", "IndentDeftype"} ->
                IF i = 1 THEN L.w + 1 ELSE L.w
      [] style \in {"indentBindings", "IndentCond0", "IndentCond1", "IndentCond2",
                    "IndentCond4"} ->
                IF L.pairIdx > 0 THEN L.w + 2
                ELSE IF i = 1 /\ L.semanticIdx = 1 THEN L.w + 1 ELSE L.w
      [] OTHER -> L.w

\* w for a node that is no newline at index i of the sequence
nodeIndent(style, i, semantic, L) ==
    CASE style \in {"IndentList", "IndentCond0"} ->
                IF i = 1
                THEN IF ~semantic /\ L.firstLen > indentListMaxCommentAlign
                     THEN L.w + 1 ELSE L.firstIndent + 1
                ELSE L.w
      [] style \in {"IndentNormal", "indentBindings"} -> L.w
      [] OTHER -> IF i = 1 THEN L.w + 1 ELSE L.w

\* semanticIdx and pairIdx after the semantic node n
countPair(style, n, L) ==
    LET semanticIdx == L.semanticIdx + 1
        pairIdx == IF L.pairIdx >= 0 THEN L.pairIdx + 1 ELSE L.pairIdx
    IN [L EXCEPT !.semanticIdx = semanticIdx,
                 !.pairIdx = IF \/ semanticIdx = indentExtraOffsets(style)
                                \/ pairIdx = 2 /\ ~isKeywordNode(n, <<":", ">", ">">>)
                                \/ pairIdx > 2
                             THEN 0 ELSE pairIdx]

(* bufWriter.writeString returns the number of bytes written; a rune outside *)
(* ASCII takes more than one byte.  MultiByte is U+00E9, two bytes in UTF-8.  *)
MultiByte == "U+00E9"

RECURSIVE byteLen(_)
byteLen(s) ==
    IF s = <<>> THEN 0
    ELSE (IF Head(s) = MultiByte THEN 2 ELSE 1) + byteLen(Tail(s))

RECURSIVE printNode(_, _, _), printSequence(_, _, _, _), printSequenceLoop(_, _, _, _, _)

\* Printer.printNode: the new indent and the printer state.
printNode(node, w, P) ==
    LET t == node.typ
        text(s) == Printed(w + byteLen(s), writeString(P, s))
        seq(open, style, close, Q) ==
            LET r == printSequence(node.ch, w + Len(open), style, writeString(Q, open))
            IN Printed(r.w + Len(close), writeString(r.p, close))
    IN CASE t \in {"BoolNode", "CharacterNode", "CommentNode", "KeywordNode",
                   "NumberNode", "SymbolNode"} -> text(node.val)
         [] t = "NilNode" -> text(<<"n", "i", "l">>)
         [] t \in WrapperTypes ->
                printNode(node.ch[1], w + Len(WrapperPrefix(t)),
                          writeString(P, WrapperPrefix(t)))
         [] t = "FnLiteralNode" -> seq(<<"#", "(">>, chooseIndent(node.ch, P), <<")">>, P)
         [] t = "ListNode" ->
                LET P1 == applySpecialIndentRules(node, P)
                    special == node.pos \in DOMAIN P1.specialIndent
                    style == IF special THEN P1.specialIndent[node.pos]
                             ELSE chooseIndent(node.ch, P1)
                    P2 == IF special
                          THEN [P1 EXCEPT !.specialIndent = delete(@, node.pos)]
                          ELSE P1
                IN seq(<<"(">>,
                       IF node.pos \in P2.threadFirst
                       THEN threadFirstTransform(style) ELSE style,
                       <<")">>, P2)
         [] t = "MapNode" -> seq(<<"{">>, "indentBindings", <<"}">>, P)
         [] t = "NewlineNode" -> Printed(0, panic(P))
         [] t = "RegexNode" -> text(<<"#", "\"">> \o node.val \o <<"\"">>)
         [] t = "SetNode" -> seq(<<"#", "{">>, "IndentNormal", <<"}">>, P)
         [] t = "StringNode" ->
                IF node.pos \in P.docstrings
                THEN Printed(w + byteLen(alignDocstring(node.val, w)) + 2,
                             writeString([P EXCEPT !.docstrings = @ \ {node.pos}],
                                         <<"\"">> \o alignDocstring(node.val, w) \o <<"\"">>))
                ELSE text(<<"\"">> \o node.val \o <<"\"">>)
         [] t = "TagNode" -> text(<<"#">> \o node.val)
         [] t = "VarQuoteNode" -> text(<<"#", "'">> \o node.val)
         [] t = "VectorNode" ->
                IF node.pos \in DOMAIN P.specialIndent
                THEN seq(<<"[">>, P.specialIndent[node.pos], <<"]">>,
                         [P EXCEPT !.specialIndent = delete(@, node.pos)])
                ELSE seq(<<"[">>, "IndentNormal", <<"]">>, P)
         \* the nil Node: node.Position() in the default case dereferences nil
         [] OTHER -> Printed(0, panic(P))

\* The loop of printSequence from node i (0-based) on, and the code after it.
printSequenceLoop(nodes, i, style, L, P) ==
    IF i >= Len(nodes)
    THEN Printed(L.w2, IF L.needIndent THEN writeString(P, indent(L.w)) ELSE P)
    ELSE LET n == nodes[i + 1]
         IN IF Newline(n)
            THEN LET w == newlineIndent(style, i, L)
                 IN printSequenceLoop(nodes, i + 1, style,
                        [L EXCEPT !.w = w, !.w2 = w, !.needIndent = TRUE,
                                  !.needSpace = FALSE,
                                  !.extraIndent =
                                      IF style \in {"indentBindings", "IndentCond0",
                                                    "IndentCond1", "IndentCond2",
                                                    "IndentCond4"} /\ L.pairIdx > 0
                                      THEN TRUE ELSE @],
                        writeString(P, <<"\n">>))
            ELSE LET semantic == Semantic(n)
                     w == nodeIndent(style, i, semantic, L)
                     P1 == IF L.needIndent THEN writeString(P, indent(w)) ELSE P
                     P2 == IF L.needSpace THEN writeString(P1, <<" ">>) ELSE P1
                     r == printNode(n, IF L.needSpace THEN L.w2 + 1 ELSE L.w2, P2)
                     L1 == [L EXCEPT !.w = IF L.extraIndent THEN w - 2 ELSE w,
                                     !.w2 = r.w,
                                     !.firstIndent = IF i = 0 THEN r.w ELSE @,
                                     !.firstLen = IF i = 0 THEN r.w - w ELSE @,
                                     !.needIndent = FALSE,
                                     !.needSpace = TRUE,
                                     !.extraIndent = FALSE]
                 IN printSequenceLoop(nodes, i + 1, style,
                        IF semantic THEN countPair(style, n, L1) ELSE L1, r.p)

\* Printer.printSequence
printSequence(nodes, w, style, P) ==
    printSequenceLoop(nodes, 0, style,
        [SeqState(w, w) EXCEPT !.pairIdx = IF indentExtraOffsets(style) > 0 THEN -1 ELSE 0],
        P)

\* Printer.markDocstrings: the docstrings map after marking under root n.
docstringOf(nodes) ==
    LET rest == SubSeq(nodes, 3, Len(nodes))
        k == IF \E i \in 1..Len(rest) : ~Newline(rest[i])
             THEN CHOOSE i \in 1..Len(rest) :
                    ~Newline(rest[i]) /\ \A j \in 1..(i - 1) : Newline(rest[j])
             ELSE 0
    IN IF k > 0 /\ rest[k].typ = "StringNode" THEN {rest[k].pos} ELSE {}

markDocstrings(n, P) ==
    IF /\ FnFormSymbol(n, {<<"n", "s">>, <<"d", "e", "f", "m", "u", "l", "t", "i">>,
                           <<"d", "e", "f">>, <<"d", "e", "f", "m", "a", "c", "r", "o">>,
                           <<"d", "e", "f", "n">>})
       /\ Len(n.ch) >= 3
       /\ n.ch[2].typ = "SymbolNode"
    THEN [P EXCEPT !.docstrings = @ \cup docstringOf(n.ch)]
    ELSE P

\* A markThreadFirstStyle that starts at child index 2 (1 in a form that is
\* itself marked) whatever the children are, and for cond-> takes every other
\* one of the list nodes it meets.
markThreadFirstStyleByIndex(form, style, P) ==
    LET from == IF form.pos \in P.threadFirst THEN 1 ELSE 2
        lists == SelectSeq(SubSeq(form.ch, from + 1, Len(form.ch)), isListNode)
    IN [P EXCEPT !.threadFirst = @ \cup
            {lists[k].pos : k \in {j \in 1..Len(lists) :
                                    style = "ThreadFirstNormal" \/ j % 2 = 0}}]

\* Printer.markThreadFirstStyle. idxSemantic of a child is the number of
\* children before it that are neither comments nor newlines; a list child
\* with idxSemantic >= begin is marked, for cond-> only when
\* (begin-idxSemantic)&1 is set, that is when the two differ by an odd number.
markThreadFirstStyle(form, style, P) ==
    LET begin == IF form.pos \in P.threadFirst THEN 1 ELSE 2
        counted(i) == form.ch[i].typ \notin {"CommentNode", "NewlineNode"}
        idxSemantic(i) == Cardinality({j \in 1..(i - 1) : counted(j)})
    IN [P EXCEPT !.threadFirst = @ \cup
            {form.ch[i].pos : i \in {j \in 1..Len(form.ch) :
                /\ form.ch[j].typ = "ListNode"
                /\ idxSemantic(j) >= begin
                /\ style = "ThreadFirstNormal" \/ (idxSemantic(j) - begin) % 2 = 1}}]

RECURSIVE markThreadFirsts(_, _), markThreadFirstsEach(_, _)
\* Printer.markThreadFirsts
markThreadFirsts(n, P) ==
    LET P1 == IF /\ n.typ \in {"ListNode", "FnLiteralNode"}
                 /\ n.ch /= <<>>
                 /\ n.ch[1].typ = "SymbolNode"
                 /\ n.ch[1].val \in DOMAIN P.threadFirstStyles
              THEN markThreadFirstStyle(n, P.threadFirstStyles[n.ch[1].val], P)
              ELSE P
    IN markThreadFirstsEach(n.ch, P1)

\* for _, node := range n.Children() { p.markThreadFirsts(node) }
markThreadFirstsEach(nodes, P) ==
    IF nodes = <<>> THEN P
    ELSE markThreadFirstsEach(Tail(nodes), markThreadFirsts(Head(nodes), P))

\* The loop of PrintTree over the roots: markDocstrings and markThreadFirsts.
RECURSIVE markRoots(_, _)
markRoots(rts, P) ==
    IF rts = <<>> THEN P
    ELSE markRoots(Tail(rts), markThreadFirsts(Head(rts), markDocstrings(Head(rts), P)))

\* p.Transforms after PrintTree has filled in the defaults
withDefaults(m, defaults) ==
    [k \in (DOMAIN m) \cup (DOMAIN defaults) |->
        IF k \in DOMAIN m THEN m[k] ELSE defaults[k]]

\* The end of PrintTree: the marks, then printSequence on the new t.Roots.
treeResult(newRoots, r) == [roots |-> newRoots, p |-> r.p, w |-> r.w]

printRoots(newRoots, P0) ==
    treeResult(newRoots, printSequence(newRoots, 0, "IndentNormal", markRoots(newRoots, P0)))

\* The names of the requires of this model and the orders a range over a
\* map with these keys can take.
RequireNames == {<<"b">>, <<"c">>}

Seeds == <<<<<<"b">>, <<"c">>>>, <<<<"c">>, <<"b">>>>>>

\* Nothing written to the package-level tables.
NoWrites == [defaultIndents |-> <<>>, defaultThreadFirstStyles |-> <<>>,
             DefaultTransforms |-> <<>>]

\* The tables PrintTree sets up before it transforms and prints, for the
\* Printer P whose Transforms field is transforms (<<>>: nil).  indentStyles
\* and threadFirstStyles are new maps that the defaults and the overrides are
\* copied into.  A nil Transforms becomes the map DefaultTransforms itself
\* (shared); otherwise the keys it lacks are written into it, which is a
\* write to DefaultTransforms when an earlier call made the two one map.
setTablesInPlace(P, transforms) ==
    LET dt == withDefaults(written.DefaultTransforms, DefaultTransforms)
    IN [indentStyles |-> withDefaults(P.IndentOverrides,
                                      withDefaults(written.defaultIndents, defaultIndents)),
        threadFirstStyles |-> withDefaults(written.defaultThreadFirstStyles,
                                           defaultThreadFirstStyles),
        Transforms |-> withDefaults(transforms, dt),
        shared |-> P.shared \/ transforms = <<>>,
        written |-> [written EXCEPT
                        !.defaultIndents = withDefaults(P.IndentOverrides, @),
                        !.DefaultTransforms = withDefaults(transforms, @)]]

setTables(P, transforms) ==
    LET dt == withDefaults(written.DefaultTransforms, DefaultTransforms)
        missing == [k \in (DOMAIN dt) \ (DOMAIN transforms) |-> dt[k]]
    IN [indentStyles |-> withDefaults(P.IndentOverrides,
                                      withDefaults(written.defaultIndents, defaultIndents)),
        threadFirstStyles |-> withDefaults(written.defaultThreadFirstStyles,
                                           defaultThreadFirstStyles),
        Transforms |-> withDefaults(transforms, dt),
        shared |-> P.shared \/ transforms = <<>>,
        written |-> IF P.shared /\ transforms /= <<>>
                    THEN [written EXCEPT !.DefaultTransforms = withDefaults(@, missing)]
                    ELSE written]

\* Printer.PrintTree for a Printer whose Transforms are transforms and whose
\* IndentOverrides and ThreadFirstStyleOverrides are empty: the new t.Roots
\* and the printer state at the end (the text written, "ok" or "panic").
printTree(rts, transforms) ==
    LET tb == setTables(printer, transforms)
        ts == tb.Transforms
        P0 == [NewPrinter EXCEPT !.indentStyles = tb.indentStyles,
                                 !.threadFirstStyles = tb.threadFirstStyles]
    IN IF applyTransformsPanics(rts, ts) \/ \E i \in 1..Len(rts) : hasNil(rts[i])
       THEN [roots |-> rts, p |-> panic(P0), w |-> 0]
       ELSE printRoots(applyTransforms(rts, ts), P0)

\* The Transforms map with every transform switched off.
NoTransforms == [k \in DOMAIN DefaultTransforms |-> FALSE]

\* Printer.PrintTree on the tree Parse returned.
PrintTree ==
    /\ outcome = "ok"
    /\ pstatus = "none"
    /\ \E r \in {printTree(roots, cfg)} :
          /\ roots' = r.roots
          /\ out' = r.p.out
          /\ pstatus' = r.p.st
          /\ tree1' = IF pass = 1 THEN roots ELSE tree1
          /\ out1' = IF pass = 1 THEN r.p.out ELSE out1
          /\ threadFirst' = r.p.threadFirst
          /\ endCol' = r.w
    /\ \E tb \in {setTables(printer, cfg)} :
          /\ cfg' = tb.Transforms
          /\ printer' = [printer EXCEPT !.shared = tb.shared]
          /\ written' = tb.written
    /\ UNCHANGED <<input, include, pass, seed>>
    /\ UNCHANGED lexVars
    /\ UNCHANGED <<stack, tok, peekCount, inLambda, outcome, err, recvd, parent>>
    /\ UNCHANGED chosen

-----------------------------------------------------------------------------
(* Starting a parse: lex(name, input) and a Tree with its flags.           *)

SeqsUpTo(S, n) == UNION {[1..k -> S] : k \in 0..n}

StartParse(text) ==
    /\ input = text
    /\ lstate = "lexOuter"
    /\ lpos = 0
    /\ lstart = 0
    /\ chan = <<>>
    /\ stack = <<>>
    /\ tok = ZeroToken
    /\ peekCount = 0
    /\ inLambda = FALSE
    /\ roots = <<>>
    /\ outcome = "running"
    /\ err = NoErr
    /\ recvd = <<>>
    /\ parent = {}

\* A Printer with no overrides, before any ns form has been seen.
PlainPrinter == [IndentOverrides |-> <<>>, requires |-> <<>>, refers |-> <<>>, shared |-> FALSE]

InitOutput ==
    /\ pass = 1
    /\ out = <<>>
    /\ pstatus = "none"
    /\ tree1 = <<>>
    /\ out1 = <<>>
    /\ chosen = "none"
    /\ threadFirst = {}
    /\ endCol = 0
    /\ written = NoWrites
    /\ seed = Head(Seeds)

InitPrint ==
    /\ InitOutput
    /\ printer = PlainPrinter

NextParse == LexRun \/ ParseStep

WrapAlphabet == {"'", "~", "@", ";", "\n", "a", "(", ")"}

InitWrap ==
    /\ \E text \in SeqsUpTo(WrapAlphabet, MaxLenWrap) : StartParse(text)
    /\ include \in BOOLEAN
    /\ cfg = <<>>
    /\ InitPrint

SpecWrap == InitWrap /\ [][NextParse]_vars

DelimAlphabet == {"(", ")", "[", "{", "}", "#", "a"}

InitDelim ==
    /\ \E text \in SeqsUpTo(DelimAlphabet, MaxLenDelim) : StartParse(text)
    /\ include \in BOOLEAN
    /\ cfg = <<>>
    /\ InitPrint

SpecDelim == InitDelim /\ [][NextParse]_vars

\* cljfmt.processFile run on the file it has written: the output of the first
\* pass is parsed, again with the same retention flag and Printer settings.
Reformat ==
    /\ pass = 1
    /\ pstatus = "ok"
    /\ pass' = 2
    /\ input' = out
    /\ lstate' = "lexOuter"
    /\ lpos' = 0
    /\ lstart' = 0
    /\ chan' = <<>>
    /\ stack' = <<>>
    /\ tok' = ZeroToken
    /\ peekCount' = 0
    /\ inLambda' = FALSE
    /\ roots' = <<>>
    /\ outcome' = "running"
    /\ err' = NoErr
    /\ recvd' = <<>>
    /\ parent' = {}
    /\ out' = <<>>
    /\ pstatus' = "none"
    /\ threadFirst' = {}
    /\ endCol' = 0
    /\ UNCHANGED <<include, cfg, tree1, out1, printer, chosen, written, seed>>

NextFormat == LexRun \/ ParseStep \/ PrintTree \/ Reformat

\* cljfmt run once more on the same file with the same Printer settings: the
\* input of the first run is parsed again, and the ranges over maps of this
\* run take an order of their own.
Rerun ==
    /\ pass = 1
    /\ pstatus = "ok"
    /\ pass' = 3
    /\ seed' \in {Seeds[i] : i \in 1..Len(Seeds)}
    /\ lstate' = "lexOuter"
    /\ lpos' = 0
    /\ lstart' = 0
    /\ chan' = <<>>
    /\ stack' = <<>>
    /\ tok' = ZeroToken
    /\ peekCount' = 0
    /\ inLambda' = FALSE
    /\ roots' = <<>>
    /\ outcome' = "running"
    /\ err' = NoErr
    /\ recvd' = <<>>
    /\ parent' = {}
    /\ out' = <<>>
    /\ pstatus' = "none"
    /\ threadFirst' = {}
    /\ endCol' = 0
    /\ UNCHANGED <<input, include, cfg, tree1, out1, printer, chosen, written>>

NextRerun == LexRun \/ ParseStep \/ PrintTree \/ Rerun

FormatAlphabet == {"#", "_", " ", "a", "\n", "(", ")", ";", "'"}

InitFormat ==
    /\ \E text \in SeqsUpTo(FormatAlphabet, MaxLenFormat) : StartParse(text)
    /\ include \in BOOLEAN
    /\ cfg \in {<<>>, NoTransforms}
    /\ InitPrint

SpecFormat == InitFormat /\ [][NextFormat]_vars

DispatchAlphabet == {"#", "_", "<", " ", "a", ")"}

InitDispatch ==
    /\ \E text \in SeqsUpTo(DispatchAlphabet, MaxLenDispatch) : StartParse(text)
    /\ include \in BOOLEAN
    /\ cfg = <<>>
    /\ InitPrint

SpecDispatch == InitDispatch /\ [][NextParse]_vars

FnAlphabet == {"#", "(", ")", "[", "a"}

InitFn ==
    /\ \E text \in SeqsUpTo(FnAlphabet, MaxLenFn) : StartParse(text)
    /\ include \in BOOLEAN
    /\ cfg = <<>>
    /\ InitPrint

SpecFn == InitFn /\ [][NextParse]_vars

CommentAlphabet == {";", "\r", "\n", "3", "4", "a", "#", "!"}

InitComment ==
    /\ \E text \in SeqsUpTo(CommentAlphabet, MaxLenComment) : StartParse(text)
    /\ include = TRUE
    /\ cfg = <<>>
    /\ InitPrint

SpecComment == InitComment /\ [][NextParse]_vars

\* The Printer as chooseIndent sees it in PrintTree: the style table is the
\* defaults with IndentOverrides laid over them; requires and refers are what
\* markRequires has collected from the ns form.
indentPrinter ==
    [NewPrinter EXCEPT !.indentStyles = withDefaults(printer.IndentOverrides, defaultIndents),
                       !.requires = printer.requires,
                       !.refers = printer.refers]

\* printNode on the first root, a list: the style chooseIndent returns for it.
ChooseIndent ==
    /\ outcome = "ok"
    /\ chosen = "none"
    /\ Len(roots) = 1
    /\ roots[1].typ = "ListNode"
    /\ chosen' = chooseIndent(roots[1].ch, indentPrinter)
    /\ UNCHANGED <<input, include, cfg, pass, out, pstatus, tree1, out1, printer, threadFirst, endCol, written, seed>>
    /\ UNCHANGED lexVars
    /\ UNCHANGED parseVars

\* Names a list can start with: a name no table knows, one the default
\* table knows, one only the prefix rule knows; bare, qualified by the
\* namespace m.n, by the alias a, and by another namespace o.
BareNames == {<<"f">>, <<"l", "e", "t">>, <<"l", "e", "t", "x">>}
Qualifiers == {<<>>, <<"m", ".", "n", "/">>, <<"a", "/">>, <<"o", "/">>}
OverrideStyles == {"IndentListBody", "IndentCond0"}

InitIndent ==
    /\ \E b \in BareNames, ql \in Qualifiers :
          /\ StartParse(<<"(">> \o ql \o b \o <<")">>)
          /\ \E keys \in SUBSET {b, <<"m", ".", "n", "/">> \o b} :
                \E ov \in [keys -> OverrideStyles] :
                   \E rq \in {<<>>, <<"a">> :> <<"m", ".", "n">>}, rf \in {<<>>, b :> <<"m", ".", "n">>} :
                      printer = [IndentOverrides |-> ov, requires |-> rq, refers |-> rf,
                                 shared |-> FALSE]
    /\ include = TRUE
    /\ cfg = <<>>
    /\ InitOutput

NextIndent == LexRun \/ ParseStep \/ ChooseIndent

SpecIndent == InitIndent /\ [][NextIndent]_vars

\* Files that are one let form; the text between the brackets of its binding
\* vector is drawn from LetAlphabet.
LetAlphabet == {"a", " ", "\n", ";"}
LetOpen == <<"(", "l", "e", "t", " ", "[">>
LetClose == <<"]", ")">>

InitLet ==
    /\ \E body \in SeqsUpTo(LetAlphabet, MaxLenLet) : StartParse(LetOpen \o body \o LetClose)
    /\ include = TRUE
    /\ cfg = <<>>
    /\ InitPrint

SpecLet == InitLet /\ [][NextFormat]_vars

(* Binding vectors of names, spaces and line breaks, long enough for a     *)
(* binding after a value that blank lines precede.                         *)
MaxLenPairs == 6

PairsAlphabet == {"a", " ", "\n"}

InitPairs ==
    /\ \E body \in SeqsUpTo(PairsAlphabet, MaxLenPairs) :
          StartParse(LetOpen \o body \o LetClose)
    /\ include = TRUE
    /\ cfg = <<>>
    /\ InitPrint

SpecPairs == InitPairs /\ [][NextFormat]_vars

\* Files that are one list headed by an operator of a cond style, followed by
\* up to MaxItemsCond items: an argument (the symbol a or the keyword :>>)
\* after a space or at the start of a new line, or an empty line.
CondOps == {<<"c", "o", "n", "d">>, <<"c", "a", "s", "e">>, <<"c", "o", "n", "d", "p">>, <<"c", "4">>}
CondItems == {<<" ", "a">>, <<"\n", "a">>, <<" ", ":", ">", ">">>, <<"\n", ":", ">", ">">>, <<"\n">>}
CondOverrides == <<"c", "4">> :> "IndentCond4"

RECURSIVE concat(_)
concat(ss) == IF ss = <<>> THEN <<>> ELSE Head(ss) \o concat(Tail(ss))

InitCond ==
    /\ \E op \in CondOps, items \in SeqsUpTo(CondItems, MaxItemsCond) :
          StartParse(<<"(">> \o op \o concat(items) \o <<")">>)
    /\ include = TRUE
    /\ cfg = <<>>
    /\ InitOutput
    /\ printer = [PlainPrinter EXCEPT !.IndentOverrides = CondOverrides]

SpecCond == InitCond /\ [][NextFormat]_vars

\* Files that are one threading form, at the top level or as an argument of
\* another threading form, followed by up to MaxItemsThread items: a symbol,
\* an empty list, a newline, or a comment with the newline that ends it.
ThreadOpens == {<<"(", "-", ">">>, <<"(", "c", "o", "n", "d", "-", ">">>, <<"(", "-", ">", " ", "a", " ", "(", "-", ">">>, <<"(", "-", ">", " ", "a", " ", "(", "c", "o", "n", "d", "-", ">">>}
ThreadItems == {<<" ", "a">>, <<" ", "(", ")">>, <<"\n">>, <<";", "\n">>}

InitThread ==
    /\ \E open \in ThreadOpens, items \in SeqsUpTo(ThreadItems, MaxItemsThread) :
          StartParse(open \o concat(items) \o
                     (IF Len(open) > 7 THEN <<")", ")">> ELSE <<")">>))
    /\ include = TRUE
    /\ cfg = <<>>
    /\ InitPrint

SpecThread == InitThread /\ [][NextFormat]_vars

\* Files that are one if or if-let form followed by up to MaxItemsIf items: a
\* symbol, a newline, a comment with the newline that ends it, or an if form
\* whose second arm alone is on its own line.
IfOpens == {<<"(", "i", "f">>, <<"(", "i", "f", "-", "l", "e", "t">>}
IfItems == {<<" ", "a">>, <<"\n">>, <<";", "\n">>, <<" ", "(", "i", "f", " ", "a", " ", "a", "\n", "a", ")">>}

InitIf ==
    /\ \E open \in IfOpens, items \in SeqsUpTo(IfItems, MaxItemsIf) :
          StartParse(open \o concat(items) \o <<")">>)
    /\ include = TRUE
    /\ cfg = <<>>
    /\ InitPrint

SpecIf == InitIf /\ [][NextFormat]_vars

(* Strings, symbols with a rune outside ASCII, and lists over several lines. *)
MaxLenWidth == 4

WidthAlphabet == {"\"", "\n", "a", MultiByte, "(", ")"}

InitWidth ==
    /\ \E text \in SeqsUpTo(WidthAlphabet, MaxLenWidth) : StartParse(text)
    /\ include = TRUE
    /\ cfg = <<>>
    /\ InitPrint

SpecWidth == InitWidth /\ [][NextFormat]_vars

(* An ns form of up to MaxItemsNS clauses and line breaks. *)
MaxItemsNS == 3

NSItems ==
    {<<" ", "(", ":", "r", "e", "q", "u", "i", "r", "e", " ", "b", ")">>,
     <<" ", "(", ":", "r", "e", "q", "u", "i", "r", "e", " ", "c", " ", "b", ")">>,
     <<" ", "(", ":", "r", "e", "q", "u", "i", "r", "e", "\n", "c", ")">>,
     <<" ", "[", "i", "m", "p", "o", "r", "t", " ", "d", ".", "e", "]">>,
     <<" ", "(", ":", "u", "s", "e", " ", "c", ")">>,
     <<"\n">>}

InitNS ==
    /\ \E items \in SeqsUpTo(NSItems, MaxItemsNS) :
          StartParse(<<"(", "n", "s", " ", "a">> \o concat(items) \o <<")">>)
    /\ include = TRUE
    /\ cfg = <<>>
    /\ InitPrint

SpecNS == InitNS /\ [][NextFormat]_vars

(* An ns form of up to MaxItemsRequire :require and :use clauses, printed   *)
(* twice with use-to-require on and sort-import-require on or off.         *)
MaxItemsRequire == 2

RequireItems ==
    {<<" ", "(", ":", "r", "e", "q", "u", "i", "r", "e", " ", "b", ")">>,
     <<" ", "(", ":", "r", "e", "q", "u", "i", "r", "e", " ", "b", " ", "c", ")">>,
     <<" ", "(", ":", "r", "e", "q", "u", "i", "r", "e", " ", "[", "c", " ", ":", "a", "s", " ", "b", "]", ")">>,
     <<" ", "(", ":", "u", "s", "e", " ", "c", ")">>,
     <<" ", "(", ":", "u", "s", "e", " ", ";", "\n", "b", ")">>,
     <<"\n">>}

InitRequire ==
    /\ \E items \in SeqsUpTo(RequireItems, MaxItemsRequire) :
          StartParse(<<"(", "n", "s", " ", "a">> \o concat(items) \o <<")">>)
    /\ include = TRUE
    /\ cfg \in {<<>>,
                [k \in {"TransformUseToRequire"} |-> TRUE],
                [k \in {"TransformUseToRequire", "TransformSortImportRequire"} |->
                    k = "TransformUseToRequire"]}
    /\ pass = 1
    /\ out = <<>>
    /\ pstatus = "none"
    /\ tree1 = <<>>
    /\ out1 = <<>>
    /\ chosen = "none"
    /\ threadFirst = {}
    /\ endCol = 0
    /\ written = NoWrites
    /\ seed \in {Seeds[i] : i \in 1..Len(Seeds)}
    /\ printer = PlainPrinter

SpecRequire == InitRequire /\ [][NextRerun]_vars

(* Printers with and without overrides and with a nil, a partial and a full *)
(* Transforms map.                                                          *)
MaxLenTables == 4

TablesAlphabet == {"(", ")", "a", "\n"}

InitTables ==
    /\ \E text \in SeqsUpTo(TablesAlphabet, MaxLenTables) : StartParse(text)
    /\ include = TRUE
    /\ cfg \in {<<>>, NoTransforms, [k \in {"TransformRemoveTrailingNewlines"} |-> FALSE]}
    /\ InitOutput
    /\ printer \in {PlainPrinter,
                    [PlainPrinter EXCEPT !.IndentOverrides = <<"a">> :> "IndentLet"]}

SpecTables == InitTables /\ [][NextFormat]_vars

(* String literals with escapes. *)
MaxLenString == 5

StringAlphabet == {"\"", "\\", "a", " "}

InitString ==
    /\ \E text \in SeqsUpTo(StringAlphabet, MaxLenString) : StartParse(text)
    /\ include = TRUE
    /\ cfg = <<>>
    /\ InitPrint

SpecString == InitString /\ [][NextParse]_vars

(* Character literals: a backslash and a name or up to MaxLenChar characters. *)
MaxLenChar == 5

CharAlphabet == {"o", "u", "+", "1", "8"}

InitChar ==
    /\ \E v \in SeqsUpTo(CharAlphabet, MaxLenChar) \cup CharNames : StartParse(<<"\\">> \o v)
    /\ include = TRUE
    /\ cfg = <<>>
    /\ InitPrint

SpecChar == InitChar /\ [][NextParse]_vars

-----------------------------------------------------------------------------
(* Trees and token streams as the claims look at them.                     *)

\* The nodes of a forest in depth-first order (Tree.flatStrings of
\* parse_test.go), the absent child of a wrapper included.
RECURSIVE flat(_)
flat(nodes) ==
    IF nodes = <<>> THEN <<>>
    ELSE <<Head(nodes)>> \o flat(Head(nodes).ch) \o flat(Tail(nodes))

NonSemanticNode(n) == n.typ \in {"CommentNode", "NewlineNode"}

NonSemanticToken(t) == t.typ \in {"tokComment", "tokNewline"}

\* The tokens the scanner sent up to its first EOF token, as far as the
\* parser has received them.
RECURSIVE untilEOF(_)
untilEOF(toks) ==
    IF toks = <<>> \/ Head(toks).typ = "tokEOF" THEN <<>>
    ELSE <<Head(toks)>> \o untilEOF(Tail(toks))

SawEOF == \E i \in 1..Len(recvd) : recvd[i].typ = "tokEOF"

WrapperToken(t) ==
    \/ t.typ \in {"tokApostrophe", "tokAtSign", "tokBacktick", "tokCircumflex", "tokTilde"}
    \/ t.typ = "tokDispatch" /\ t.val \in {<<"#", "_">>, <<"#", "=">>}

\* The input ended while a wrapper token was waiting for its form: the
\* parser received EOF, and the last token before it that is no comment and
\* no newline is a wrapper token.
EOFAfterWrapper ==
    /\ SawEOF
    /\ LET toks == untilEOF(recvd)
       IN \E k \in 1..Len(toks) :
            /\ WrapperToken(toks[k])
            /\ \A j \in (k + 1)..Len(toks) : NonSemanticToken(toks[j])

-----------------------------------------------------------------------------
(* Claims C3, C4, C10: wrappers and non-semantic retention (SpecWrap).     *)

\* C3: if the end of input is reached before any semantic form follows a
\* wrapper token (nothing, or only comments and newlines, in between), Parse
\* returns an error whose message ends with "unexpected EOF", and no tree.
C3_WrapperAtEOFIsError ==
    (outcome /= "running" /\ EOFAfterWrapper)
        => (outcome = "parseError" /\ err.msg = "unexpected EOF")

\* C4: in every tree of a successful parse each wrapper node has exactly one
\* child, which is present and is a semantic node (no comment, no newline).
C4_WrapperChildSemantic ==
    outcome = "ok" =>
        \A i \in 1..Len(flat(roots)) :
            LET n == flat(roots)[i]
            IN n.typ \in WrapperTypes =>
                    /\ Len(n.ch) = 1
                    /\ n.ch[1] /= nilNode
                    /\ isSemantic(n.ch[1])

\* C10: the retention flag alone decides whether comment and newline nodes
\* are in the tree: with retention every comment and newline token yields a
\* node at its place in document order, without it no such node is anywhere
\* in the tree.
C10_RetentionDecides ==
    outcome = "ok" =>
        LET nodes == SelectSeq(flat(roots), NonSemanticNode)
            toks == SelectSeq(untilEOF(recvd), NonSemanticToken)
        IN IF include
           THEN /\ Len(nodes) = Len(toks)
                /\ \A i \in 1..Len(nodes) :
                      /\ nodes[i].pos = toks[i].pos
                      /\ nodes[i].typ = IF toks[i].typ = "tokComment"
                                        THEN "CommentNode" ELSE "NewlineNode"
           ELSE nodes = <<>>

-----------------------------------------------------------------------------
(* Claims C5, C8: maps and unclosed forms (SpecDelim).                     *)

\* C5: every map node of a successfully parsed tree has an even number of
\* semantic children; a map literal with an odd number of forms is a parse
\* error.
C5_MapEven ==
    outcome = "ok" =>
        \A i \in 1..Len(flat(roots)) :
            LET n == flat(roots)[i]
            IN n.typ = "MapNode" => countSemantic(n.ch) % 2 = 0

\* The parser stopped in the loop of an unclosed list, vector, map, set or
\* fn literal because it read EOF there.
EOFInLoop ==
    /\ outcome = "parseError"
    /\ err.msg = "unexpected EOF"
    /\ stack /= <<>>
    /\ stack[Len(stack)].fn \in LoopFns
    /\ stack[Len(stack)].st = "loop"

\* C8: when the input ends before the closing delimiter of a form, the
\* "unexpected EOF" error carries the position of the innermost unclosed
\* form's opening delimiter, not that of the end of input.
C8_EOFErrorAtOpening ==
    EOFInLoop => err.pos = stack[Len(stack)].pos

-----------------------------------------------------------------------------
(* Claims C6, C7: the dispatch character (SpecDispatch).                   *)

\* The input is '#', then one or more spaces, then the symbol made of the
\* rest of the input.
HashSpaceSymbol ==
    /\ Len(input) >= 3
    /\ input[1] = "#"
    /\ input[2] = " "
    /\ input[Len(input)] \in {"a", "_"}
    /\ \E k \in 2..(Len(input) - 1) :
          /\ \A i \in 2..k : input[i] = " "
          /\ \A i \in (k + 1)..Len(input) : input[i] \in {"a", "_"}

\* The symbol that ends the input: what follows the last space.
lastSymbol ==
    LET k == CHOOSE i \in 1..Len(input) :
                input[i] = " " /\ \A j \in (i + 1)..Len(input) : input[j] /= " "
    IN SubSeq(input, k + 1, Len(input))

\* C6: "#_" directly before a form reads as a discard node that wraps the
\* form, and the parse does not crash; '#', whitespace and a symbol (the
\* symbol "_" too) read as the tag node of that symbol, never as a discard.
C6_DispatchWhitespace ==
    /\ (outcome /= "running" /\ Len(input) >= 3 /\ SubSeq(input, 1, 3) = <<"#", "_", "a">>)
          => /\ outcome /= "panic"
             /\ outcome = "ok" =>
                   /\ roots /= <<>>
                   /\ roots[1].typ = "IgnoreFormNode"
                   /\ roots[1].ch[1].typ = "SymbolNode"
    /\ (outcome /= "running" /\ HashSpaceSymbol)
          => /\ outcome = "ok"
             /\ Len(roots) = 1
             /\ roots[1].typ = "TagNode"
             /\ roots[1].val = lastSymbol

\* The error token "unreadable dispatch macro" is in the channel or has been
\* received.
unreadable(t) == t.typ = "tokError" /\ t.val = "unreadable dispatch macro"

UnreadableSent == \E i \in 1..Len(chan) : unreadable(chan[i])

UnreadableReceived == \E i \in 1..Len(recvd) : unreadable(recvd[i])

\* C7: when the scanner reaches "#<" it sends the error token "unreadable
\* dispatch macro"; the parser that receives it stops with that error, and no
\* parse in which the token was sent ends with a tree.
C7_UnreadableDispatch ==
    /\ [][(lstate = "lexDispatch" /\ lpos < Len(input) /\ input[lpos + 1] = "<"
           /\ lstate' /= lstate)
            => (Len(chan') = 1 /\ unreadable(chan'[1]))]_vars
    /\ [][(outcome = "running" /\ UnreadableSent /\ recvd' /= recvd)
            => (outcome' = "lexError" /\ err'.msg = "unreadable dispatch macro")]_vars
    /\ []((UnreadableSent \/ UnreadableReceived) => outcome /= "ok")
    /\ [](UnreadableReceived
            => (outcome = "lexError" /\ err.msg = "unreadable dispatch macro"))

\* Parse has returned the "unreadable" error after it had read other tokens.
C7_Witness ==
    /\ outcome = "lexError"
    /\ err.msg = "unreadable dispatch macro"
    /\ UnreadableReceived
    /\ Len(recvd) >= 2
    /\ roots /= <<>>

-----------------------------------------------------------------------------
(* Claim C9: fn literals do not nest (SpecFn).                             *)

\* A call of parseFnLiteral is in its loop: it has read its "(" and not yet
\* its ")".
FnLiteralOpen(stk) ==
    \E i \in 1..Len(stk) : stk[i].fn = "parseFnLiteral" /\ stk[i].st /= "open"

\* The token the next call of Tree.next returns.
nextTok == IF peekCount > 0 THEN tok ELSE nextToken

\* Tree.parse is about to read the dispatch token "#(".
AtFnLiteralStart ==
    /\ outcome = "running"
    /\ AtParse(stack)
    /\ peekCount > 0 \/ chan /= <<>>
    /\ nextTok.typ = "tokDispatch"
    /\ nextTok.val = <<"#", "(">>

\* C9: a "#(" read at any depth inside an fn literal that is still open is
\* the parse error "cannot nest fn literals" at the position of that "#(",
\* and a "#(" read while no fn literal is open is not an error; inLambda is
\* true exactly while an fn literal is open and false after a successful
\* parse.
C9_NoNestedFnLiterals ==
    /\ [][(AtFnLiteralStart /\ (stack' /= stack \/ outcome' /= outcome))
            => IF FnLiteralOpen(stack)
               THEN /\ outcome' = "parseError"
                    /\ err' = [pos |-> nextTok.pos, msg |-> "cannot nest fn literals"]
               ELSE /\ outcome' = "running"
                    /\ stack' = Append(stack, Frame("parseFnLiteral", nextTok.pos, <<>>, "open"))]_vars
    /\ [](outcome = "running" => (inLambda <=> FnLiteralOpen(stack)))
    /\ [](outcome = "ok" => ~inLambda)

\* The nested "#(" was found inside a vector inside the open fn literal.
C9_Witness ==
    /\ outcome = "parseError"
    /\ err.msg = "cannot nest fn literals"
    /\ Len(stack) >= 2
    /\ stack[Len(stack)].fn = "parseVector"
    /\ FnLiteralOpen(stack)

-----------------------------------------------------------------------------
(* Claims C1, C2: printing and parsing again (SpecFormat).                 *)

\* The depth-first sequence of the kinds and payloads of the semantic nodes.
kinds(nodes) ==
    LET sem == SelectSeq(flat(nodes), isSemantic)
    IN [i \in 1..Len(sem) |-> <<sem[i].typ, sem[i].val>>]

\* C1: for an input parsed with retention and any Printer configuration,
\* formatting the output of the first format pass succeeds again (it parses
\* and prints) and writes the same bytes as the first pass.
C1_FormatIdempotent ==
    (include /\ pass = 2) =>
        /\ outcome \in {"running", "ok"}
        /\ pstatus /= "none" => (pstatus = "ok" /\ out = out1)

\* C2: with every transform disabled, parsing what PrintTree wrote succeeds
\* and yields the same depth-first sequence of semantic node kinds and
\* payloads as the tree that was printed.
C2_PrintPreservesKinds ==
    (cfg = NoTransforms /\ pass = 2 /\ outcome /= "running") =>
        /\ outcome = "ok"
        /\ kinds(roots) = kinds(tree1)

-----------------------------------------------------------------------------
(* Claim C11: comment tokens (SpecComment).                                *)

\* The first offset from p on at which the input ends or a '\r' or '\n' is
\* the next character.
lineEnd(p) ==
    CHOOSE q \in p..Len(input) :
        /\ q = Len(input) \/ input[q + 1] \in {"\r", "\n"}
        /\ \A i \in p..(q - 1) : input[i + 1] \notin {"\r", "\n"}

\* Token t is a comment token that is the text from its start (the ';', or
\* the '#' of "#!") up to the end of its line, the terminator left out.
WholeComment(t) ==
    /\ t.val = SubSeq(input, t.pos + 1, lineEnd(t.pos))
    /\ t.val[1] = ";" \/ SubSeq(t.val, 1, 2) = <<"#", "!">>

-----------------------------------------------------------------------------
(* Claim C12: parent references (SpecWrap).                                *)

\* The node of the tree rts at path q.
RECURSIVE nodeAt(_, _)
nodeAt(rts, q) == IF Len(q) = 1 THEN rts[q[1]] ELSE nodeAt(rts[q[1]].ch, Tail(q))

\* The paths of the nodes of the tree rts (a nil child is no node).
RECURSIVE NodePaths(_, _)
NodePaths(nodes, prefix) ==
    UNION {IF nodes[i].typ = "nil"
           THEN {}
           ELSE {Append(prefix, i)} \cup NodePaths(nodes[i].ch, Append(prefix, i)) :
              i \in 1..Len(nodes)}

\* What Parent() returns at the node with path q: the set of nodes its
\* reference names (empty: nil).
Parent(q) == {pr[2] : pr \in {x \in parent : x[1] = q}}

\* The nodes of the tree whose Children() contain the node with path q.
Holders(q) ==
    {p \in NodePaths(roots, <<>>) :
        \E i \in 1..Len(nodeAt(roots, p).ch) : Append(p, i) = q}

-----------------------------------------------------------------------------
(* Claim C13: the order in which an indent style is resolved (SpecIndent). *)

\* The first hit in the order the claim gives, for the symbol s.
claimedStyle(s) ==
    LET P == indentPrinter
        i == LastIndex(s)
        ns == SubSeq(s, 1, i - 1)
        bare == SubSeq(s, i + 1, Len(s))
        resolved == IF i > 0 /\ ns \in DOMAIN P.requires
                    THEN P.requires[ns] \o <<"/">> \o bare
                    ELSE IF i = 0 /\ s \in DOMAIN P.refers
                    THEN P.refers[s] \o <<"/">> \o s
                    ELSE <<>>
    IN CASE i > 0 /\ s \in DOMAIN P.indentStyles -> P.indentStyles[s]
         [] resolved /= <<>> /\ resolved \in DOMAIN P.indentStyles -> P.indentStyles[resolved]
         [] bare \in DOMAIN P.indentStyles -> P.indentStyles[bare]
         [] \E prefix \in {<<"d", "e", "f">>, <<"l", "e", "t">>, <<"w", "i", "t", "h", "-">>, <<"w", "h", "e", "n", "-">>} :
                HasPrefix(bare, prefix) -> "IndentListBody"
         [] OTHER -> "IndentList"

\* C13: the style chosen for a list starting with symbol s is the first hit
\* of: the table entry for s as written when s is qualified; the entry
\* 'required-ns/name' reached through a require alias or a :refer; the entry
\* for the bare name; list-body for a def, let, with- or when- prefix; list.
C13_ResolutionOrder ==
    chosen /= "none" => chosen = claimedStyle(roots[1].ch[1].val)

-----------------------------------------------------------------------------
(* Claim C14: the binding vector of a let form (SpecLet).                  *)

\* Scans text from index i on. col is the column of text[i], sem the number
\* of binding forms met so far, start whether only indentation precedes on
\* this line, comment whether a comment is being read. TRUE iff every
\* binding form that starts a line is at column nameCol when it is a name
\* (sem even) and at nameCol + 2 when it is a value (sem odd).
RECURSIVE bindingColumns(_, _, _, _, _, _, _)
bindingColumns(text, i, col, sem, start, comment, nameCol) ==
    IF i > Len(text) THEN TRUE
    ELSE LET c == text[i]
             more(sm, st, cm) == bindingColumns(text, i + 1, col + 1, sm, st, cm, nameCol)
         IN CASE c = "\n" -> bindingColumns(text, i + 1, 0, sem, TRUE, FALSE, nameCol)
              [] c /= "\n" /\ comment -> more(sem, FALSE, TRUE)
              [] c = ";" /\ ~comment -> more(sem, FALSE, TRUE)
              [] c = " " /\ ~comment -> more(sem, start, FALSE)
              [] c = "a" /\ ~comment ->
                    IF text[i - 1] = "a" THEN more(sem, FALSE, FALSE)
                    ELSE /\ start => col = (IF sem % 2 = 0 THEN nameCol ELSE nameCol + 2)
                         /\ more(sem + 1, FALSE, FALSE)
              [] OTHER -> more(sem, FALSE, FALSE)

\* C14: in the binding vector of a let form every binding name that starts
\* a line is printed at the column just after '[', every binding value that
\* starts a line two columns to the right of it, and formatting the output
\* again changes nothing.
C14_LetBindings ==
    pstatus = "ok"
        => /\ bindingColumns(out, 1, 0, 0, FALSE, FALSE, Len(LetOpen))
           /\ pass = 2 => out = out1

-----------------------------------------------------------------------------
(* Claim C15: lists printed with a cond style (SpecCond).                  *)

\* The arguments in text from index i on, in order: for each its column,
\* whether it starts its line, and whether it is the keyword :>>.
RECURSIVE arguments(_, _, _, _)
arguments(text, i, col, start) ==
    IF i > Len(text) THEN <<>>
    ELSE LET c == text[i]
         IN CASE c = "\n" -> arguments(text, i + 1, 0, TRUE)
              [] c = " " -> arguments(text, i + 1, col + 1, start)
              [] c \in {"a", ":"} ->
                    <<[col |-> col, start |-> start, kw |-> c = ":"]>>
                        \o arguments(text, i + 1, col + 1, FALSE)
              [] OTHER -> arguments(text, i + 1, col + 1, FALSE)

\* The place of each argument in its group: 0 for the n unpaired leading
\* arguments, then 1, 2 within a pair and 1, 2, 3 within a triple, a group
\* being a triple when its second element is :>>.
RECURSIVE places(_, _, _, _)
places(args, k, n, prev) ==
    IF k > Len(args) THEN <<>>
    ELSE LET place == CASE k <= n -> 0
                        [] prev = 1 -> 2
                        [] prev = 2 /\ args[k - 1].kw -> 3
                        [] OTHER -> 1
         IN <<place>> \o places(args, k + 1, n, place)

unpaired(op) ==
    CASE op = <<"c", "o", "n", "d">> -> 0
      [] op = <<"c", "a", "s", "e">> -> 1
      [] op = <<"c", "o", "n", "d", "p">> -> 2
      [] op = <<"c", "4">> -> 4

\* The operator the one root list of the first pass starts with.
condOp == tree1[1].ch[1].val

MaxCol == 16

\* C15: in a list printed with style cond0, cond1, cond2 or cond4 the first
\* 0, 1, 2 or 4 arguments are unpaired and the rest are grouped in pairs, or
\* in a triple when the second element of the group is :>>; an argument that
\* starts a line is indented two extra columns iff it is the second or, in a
\* triple, the third element of its group, all others that start a line
\* sharing the body column.
C15_CondPairs ==
    pstatus = "ok"
        => LET args == arguments(out, Len(condOp) + 2, Len(condOp) + 1, FALSE)
               pl == places(args, 1, unpaired(condOp), 0)
           IN \E body \in 0..MaxCol :
                 \A k \in 1..Len(args) :
                    args[k].start => args[k].col = body + (IF pl[k] >= 2 THEN 2 ELSE 0)

-----------------------------------------------------------------------------
(* Claim C16: which arguments of a threading form are marked (SpecThread). *)

\* The children of form that are arguments or the operator: neither
\* comments nor newlines.
semanticChildren(form) ==
    SelectSeq(form.ch, LAMBDA n : n.typ \notin {"CommentNode", "NewlineNode"})

threadStyle(form) ==
    IF /\ form.typ = "ListNode"
       /\ form.ch /= <<>>
       /\ form.ch[1].typ = "SymbolNode"
       /\ form.ch[1].val \in DOMAIN defaultThreadFirstStyles
    THEN defaultThreadFirstStyles[form.ch[1].val]
    ELSE "none"

\* The lists the claim has marked in a threading form. The operator is
\* semantic child 1, so argument k is semantic child k + 1; in a form that is
\* itself a marked argument the threaded expression is not written, and the
\* written arguments count from 2.
claimedIn(form, isMarked) ==
    LET sc == semanticChildren(form)
        argNo(k) == IF isMarked THEN k ELSE k - 1
    IN {sc[k].pos : k \in {j \in 2..Len(sc) :
            /\ sc[j].typ = "ListNode"
            /\ \/ threadStyle(form) = "ThreadFirstNormal" /\ argNo(j) >= 2
               \/ threadStyle(form) = "ThreadFirstCondArrow"
                    /\ argNo(j) >= 3 /\ argNo(j) % 2 = 1}}

RECURSIVE claimedMarks(_, _)
claimedMarks(node, isMarked) ==
    LET own == claimedIn(node, isMarked)
    IN own \cup UNION {claimedMarks(node.ch[i], node.ch[i].pos \in own) :
                          i \in 1..Len(node.ch)}

\* C16: in a cond-> form exactly the list arguments in the 3rd, 5th, 7th, ...
\* argument positions are marked thread-first, the positions counting
\* semantic arguments only, whatever the tests are and whatever comments or
\* newlines lie between; in a normal threading form every list argument from
\* the 2nd on is marked.
C16_ThreadFirstMarks ==
    pstatus = "ok"
        => threadFirst = UNION {claimedMarks(roots[i], FALSE) : i \in 1..Len(roots)}

\* "(cond-> a" with a comment and " a ())" on the next line has been printed:
\* the list is the 3rd argument, behind a test that is a symbol, and it is
\* marked.
C16_Witness ==
    /\ input = <<"(", "c", "o", "n", "d", "-", ">", " ", "a", ";", "\n", " ", "a", " ", "(", ")", ")">>
    /\ pstatus = "ok"
    /\ threadFirst = {14}

-----------------------------------------------------------------------------
(* Claim C17: fix-if-newline-consistency (SpecIf).                         *)

\* The subtrees of node, node included.
RECURSIVE subtrees(_)
subtrees(node) == {node} \cup UNION {subtrees(node.ch[i]) : i \in 1..Len(node.ch)}

\* The indexes in form.ch of the forms of an if: operator, test, then, else, ...
formIndexes(form) ==
    SelectSeq([i \in 1..Len(form.ch) |-> i],
              LAMBDA i : form.ch[i].typ \notin {"NewlineNode", "CommentNode"})

newlineBetween(form, i, j) == \E k \in (i + 1)..(j - 1) : form.ch[k].typ = "NewlineNode"

isIfForm(form) ==
    /\ form.typ = "ListNode"
    /\ form.ch /= <<>>
    /\ form.ch[1].typ = "SymbolNode"
    /\ form.ch[1].val \in {<<"i", "f">>, <<"i", "f", "-", "n", "o", "t">>, <<"i", "f", "-", "s", "o", "m", "e">>, <<"i", "f", "-", "l", "e", "t">>}

armsConsistent(form) ==
    LET ix == formIndexes(form)
    IN (isIfForm(form) /\ Len(ix) >= 4)
          => (newlineBetween(form, ix[2], ix[3]) <=> newlineBetween(form, ix[3], ix[4]))

RECURSIVE hasNewline(_)
hasNewline(node) ==
    node.typ = "NewlineNode" \/ \E i \in 1..Len(node.ch) : hasNewline(node.ch[i])

\* C17: after fix-if-newline-consistency, in every if, if-not, if-some or
\* if-let form with both arms a newline lies between the test and the 'then'
\* arm iff a newline lies between the two arms; a form written on one line
\* is left as it is.
C17_IfArmsConsistent ==
    pstatus = "ok"
        => /\ \A i \in 1..Len(roots) : \A f \in subtrees(roots[i]) : armsConsistent(f)
           /\ (pass = 1 /\ \A i \in 1..Len(tree1) : ~hasNewline(tree1[i])) => roots = tree1

-----------------------------------------------------------------------------
(* Claim C18: the scanner after its last token (SpecDispatch).             *)

\* The parser has received an EOF token or an error token that the scanner
\* sent (the zero token of a closed channel carries no position).
EndTokenSent ==
    \E k \in 1..Len(recvd) :
        recvd[k].typ \in {"tokEOF", "tokError"} /\ recvd[k].pos /= NoPos

\* C18: once the scanner has sent an EOF token or an error token it sends
\* nothing more, closes the channel and terminates: it is neither scanning
\* on nor blocked in a send.
C18_ScannerStopsAfterEnd == EndTokenSent => (lstate = "nil" /\ chan = <<>>)

-----------------------------------------------------------------------------
(* Claim C19: the parser after the end of the stream (SpecWrap).           *)

\* C19: the parser never asks the scanner for another token after it has
\* received an EOF token or an error token: no receive follows the end of the
\* stream.
C19_NoReceiveAfterEnd ==
    \A k \in 1..(Len(recvd) - 1) : recvd[k].typ \notin {"tokEOF", "tokError"}

-----------------------------------------------------------------------------
(* Claim C20: PrintTree on the trees the parser builds (SpecFormat).       *)

\* C20: for a tree of a successful parse that kept the non-semantic nodes,
\* after the enabled transforms, PrintTree never reaches printNode with a
\* newline node or a nil child: it does not end in the "should not happen"
\* panic or a crash.
C20_PrintNeverPanics == (include /\ pstatus /= "none") => pstatus /= "panic"

-----------------------------------------------------------------------------
(* Claim C21: the column printNode returns (SpecWidth).                    *)

\* The column of the output after its last character: the number of
\* characters written since the last line break.
RECURSIVE outColumn(_)
outColumn(s) ==
    IF s = <<>> \/ s[Len(s)] = "\n" THEN 0
    ELSE 1 + outColumn(SubSeq(s, 1, Len(s) - 1))

\* PrintTree has printed a tree whose last root is not a newline node, so the
\* column its top-level printSequence returned is the one the printNode of
\* that last root returned.
PrintedNode ==
    /\ pstatus = "ok"
    /\ roots /= <<>>
    /\ ~Newline(roots[Len(roots)])

\* C21: the value printNode returns is the column of the output right after
\* the last character written for the node, whatever the node holds: a string
\* with a line break or a rune outside ASCII, or a composite over several
\* lines.
C21_ReturnedColumn == PrintedNode => endCol = outColumn(out)

-----------------------------------------------------------------------------
(* Claims C22, C23: the node objects of the tree PrintTree printed (SpecNS). *)

\* The positions of the tree at which the object a occurs.
occurrences(a) == {q \in NodePaths(roots, <<>>) : addr(nodeAt(roots, q)) = a}

\* C22: in the tree PrintTree prints, after the transforms, every node
\* object occurs at exactly one position: no object is a child of two
\* parents or twice a child of one.
C22_NoSharedNodes ==
    pstatus = "ok"
        => \A q \in NodePaths(roots, <<>>) : occurrences(addr(nodeAt(roots, q))) = {q}

\* What Parent() returns for the object a after the first pass: the objects
\* the references set by the parser name (empty: nil).  No transform calls
\* SetParent, and a node a transform allocates has a nil parent.
parentOf(a) ==
    {addr(nodeAt(tree1, x[2])) : x \in {y \in parent : addr(nodeAt(tree1, y[1])) = a}}

\* C23: after PrintTree has applied the transforms, every child c of every
\* node n of the tree has n as its parent, the nodes the transforms created
\* or moved included.
C23_ParentsAfterTransforms ==
    (pass = 1 /\ pstatus = "ok")
        => \A q \in NodePaths(roots, <<>>) :
              Len(q) > 1 =>
                  parentOf(addr(nodeAt(roots, q)))
                      = {addr(nodeAt(roots, SubSeq(q, 1, Len(q) - 1)))}

-----------------------------------------------------------------------------
(* Claim C24: the package-level tables (SpecTables).                       *)

\* C24: PrintTree never modifies the package-level tables defaultIndents,
\* defaultThreadFirstStyles and DefaultTransforms: overrides and missing
\* transform keys go into the maps of the calling Printer only.
C24_PackageTablesUnchanged == written = NoWrites

\* A Printer with an indent override and a partial Transforms map has printed
\* twice: the override is in no package-level table, and the Transforms map
\* of the Printer has been filled up with the defaults.
C24_Witness ==
    /\ pass = 2
    /\ pstatus = "ok"
    /\ printer.IndentOverrides = <<"a">> :> "IndentLet"
    /\ DOMAIN cfg = DOMAIN DefaultTransforms
    /\ ~cfg["TransformRemoveTrailingNewlines"]
    /\ cfg["TransformRemoveExtraBlankLines"]
    /\ written = NoWrites

-----------------------------------------------------------------------------
(* Claim C25: the one-token lookahead of the parser (SpecWrap).            *)

\* C25: during a parse peekCount is 0 or 1 and the panic of a second backup
\* in a row is never reached; the call of next that follows a backup hands
\* out the token backed up and receives nothing from the scanner.
C25_OneTokenLookahead ==
    /\ [](peekCount \in {0, 1} /\ outcome /= "panic")
    /\ [][peekCount = 1 => (recvd' = recvd /\ tok' = tok)]_vars

\* "~a": the parser has read the symbol to look for @ and backed up over it.
C25_Witness ==
    /\ input = <<"~", "a">>
    /\ outcome = "running"
    /\ peekCount = 1
    /\ tok.typ = "tokSymbol"
    /\ Len(recvd) = 2

-----------------------------------------------------------------------------
(* Claim C26: the extent of a string token (SpecString).                   *)

\* The number of backslashes in a row that end just before the character at
\* index q, none of them before index from.
RECURSIVE backslashesBefore(_, _)
backslashesBefore(q, from) ==
    IF q - 1 >= from /\ input[q - 1] = "\\" THEN 1 + backslashesBefore(q - 1, from) ELSE 0

\* The character at index q is a quote that closes the string opened by the
\* quote at index open.
closes(open, q) ==
    /\ input[q] = "\""
    /\ backslashesBefore(q, open + 1) % 2 = 0

\* C26: a string token that starts at a quote ends at the first later quote
\* that an even number of backslashes in a row precedes; when there is no
\* such quote before EOF the scanner sends one error token at the opening
\* quote, no string token, and nothing after it.
C26_StringExtent ==
    /\ \A k \in 1..Len(recvd) :
          LET open == recvd[k].pos + 1
              end == recvd[k].pos + Len(recvd[k].val)
              quoted == open \in 1..Len(input) /\ input[open] = "\""
          IN /\ (recvd[k].typ = "tokString" /\ quoted) =>
                   /\ end > open
                   /\ closes(open, end)
                   /\ \A q \in (open + 1)..(end - 1) : ~closes(open, q)
             /\ (recvd[k].typ = "tokError" /\ quoted) =>
                   /\ \A q \in (open + 1)..Len(input) : ~closes(open, q)
                   /\ k = Len(recvd)
                   /\ chan = <<>>
    /\ (recvd /= <<>> /\ input /= <<>> /\ input[1] = "\"") =>
          /\ recvd[1].pos = 0
          /\ recvd[1].typ \in {"tokString", "tokError"}

\* The string with an escaped quote in it is one token of five characters.
C26_Witness ==
    /\ input = <<"\"", "\\", "\"", "a", "\"">>
    /\ recvd /= <<>>
    /\ recvd[1] = Token("tokString", 0, input)

-----------------------------------------------------------------------------
(* Claim C27: the character literals that decode (SpecChar).               *)

\* The texts after the backslash that the claim says decode.
claimedCharacter(v) ==
    \/ Len(v) = 1
    \/ v \in CharNames
    \/ Len(v) = 4 /\ v[1] = "o" /\ \A i \in 2..4 : v[i] \in OctDigits
    \/ Len(v) = 5 /\ v[1] = "u" /\ \A i \in 2..5 : v[i] \in HexDigits

\* C27: a character-literal token decodes to a character node exactly when
\* the text after the backslash is one rune, one of the six names, o with
\* exactly three octal digits, or u with exactly four hexadecimal digits;
\* every other text ends the parse with an error.
C27_CharacterLiterals ==
    (outcome /= "running" /\ input /= <<>> /\ input[1] = "\\")
        => (claimedCharacter(Tail(input))
              <=> (outcome = "ok" /\ Len(roots) = 1 /\ roots[1].typ = "CharacterNode"))

-----------------------------------------------------------------------------
(* Claim C29: the end of the token stream (SpecDispatch).                  *)

\* The tokens the scanner has sent so far: those the parser received from it
\* and those it is blocked sending.
sent == SelectSeq(recvd, LAMBDA t : t.pos /= NoPos) \o chan

\* C29: when the scanner has closed the channel, the tokens it sent end with
\* exactly one EOF token or error token: the channel is never closed without
\* one of the two having been sent.
C29_StreamEndsWithEOFOrError ==
    lstate = "nil"
        => /\ sent /= <<>>
           /\ sent[Len(sent)].typ \in {"tokEOF", "tokError"}
           /\ \A k \in 1..(Len(sent) - 1) : sent[k].typ \notin {"tokEOF", "tokError"}

-----------------------------------------------------------------------------
(* Claim C30: the extra indent of a paired value (SpecPairs).              *)

\* Scans text from index i on, as bindingColumns does. TRUE iff every binding
\* name (sem even) that starts a line is at column nameCol.
RECURSIVE nameColumns(_, _, _, _, _, _)
nameColumns(text, i, col, sem, start, nameCol) ==
    IF i > Len(text) THEN TRUE
    ELSE LET c == text[i]
         IN CASE c = "\n" -> nameColumns(text, i + 1, 0, sem, TRUE, nameCol)
              [] c = " " -> nameColumns(text, i + 1, col + 1, sem, start, nameCol)
              [] c = "a" /\ text[i - 1] /= "a" ->
                    /\ (start /\ sem % 2 = 0) => col = nameCol
                    /\ nameColumns(text, i + 1, col + 1, sem + 1, FALSE, nameCol)
              [] OTHER -> nameColumns(text, i + 1, col + 1, sem, FALSE, nameCol)

\* C30: the two columns printSequence adds when a line break precedes the
\* second element of a pair are taken back once that element is printed:
\* however many line breaks precede a paired value, every later binding
\* name that starts a line is at the base column of the vector.
C30_ExtraIndentRemoved ==
    pstatus = "ok" => nameColumns(out, Len(LetOpen) + 1, Len(LetOpen), 0, FALSE, Len(LetOpen))

\* C28: two runs of PrintTree on trees parsed from the same input with the
\* same Printer configuration write the same bytes, whichever transforms are
\* enabled.
C28_Deterministic == (pass = 3 /\ pstatus = "ok") => out = out1

====
